---- MODULE Spec2Model ----
(***************************************************************************)
(* Model of the cs2-skin-bot query aggregation engine: the Aggregator      *)
(* (core/aggregator.ts), the two-tier Bottleneck rate limiting it drives   *)
(* (util/rate.ts, index.ts) and the providers' search contract.            *)
(*                                                                         *)
(* Time is counted in milliseconds.  An optional value (a TypeScript       *)
(* `T | undefined`) is a sequence of length 0 (undefined) or 1.            *)
(***************************************************************************)
EXTENDS Integers, Sequences, FiniteSets, TLC

VARIABLES
    clock,             \* Date.now()
    providers,         \* Aggregator.providers (constructor argument)
    inbox,             \* the queries the environment will still submit to searchAll
    search,            \* per searchAll invocation: query, status, returned value
    task,              \* per invocation and provider: the mapped async task
    globalQueue,       \* globalLimiter: jobs waiting for admission (FIFO)
    globalRunning,     \* globalLimiter: jobs admitted and not yet settled
    globalNext,        \* globalLimiter: earliest time of the next launch
    providerLimiters,  \* Aggregator.providerLimiters: names that have a limiter
    provQueue,         \* per provider limiter: waiting jobs (FIFO)
    provRunning,       \* per provider limiter: jobs admitted and not yet settled
    provNext,          \* per provider limiter: earliest time of the next launch
    cache,             \* per provider module: the MemoryCache store
    sortIn,            \* sort harness: the list handed to Array.prototype.sort
    sortBy,            \* sort harness: the strategy
    sortOut,           \* sort harness: the outputs of the sorts performed
    sortPc,            \* sort harness: position
    fltQuery,          \* filter harness: the query
    fltResult,         \* filter harness: the result under test
    fltKeep,           \* filter harness: matchesQuery's answer
    fltPc,             \* filter harness: position
    cchClock,          \* cache harness: Date.now()
    cchStore,          \* cache harness: MemoryCache.store
    cchCalls,          \* cache harness: the withTtl calls made
    cchLastSet,        \* cache harness: per key, the arguments and time of the last set
    cchLastGet,        \* cache harness: the last get(key) and what it returned
    cchBudget,         \* cache harness: direct operations, calls and clock steps left
    infArgs,           \* candidate harness: the arguments of inferCandidates
    infOut,            \* candidate harness: the candidates returned
    infPc,             \* candidate harness: position
    stmQuery,          \* Steam harness: the query of SteamProvider.search
    stmUpstream,       \* Steam harness: what the price overview endpoint answers
    stmCandidates,     \* Steam harness: the candidates inferCandidates returned
    stmNext,           \* Steam harness: index of the next candidate of the loop
    stmResults,        \* Steam harness: results pushed so far
    stmRequests,       \* Steam harness: the candidates requested upstream, in order
    stmCache,          \* Steam harness: the provider's MemoryCache store
    stmReturned,       \* Steam harness: the list search returned
    stmPc              \* Steam harness: position

aggVars == <<clock, providers, inbox, search, task, globalQueue, globalRunning,
             globalNext, providerLimiters, provQueue, provRunning, provNext, cache>>
sortVars == <<sortIn, sortBy, sortOut, sortPc>>
fltVars == <<fltQuery, fltResult, fltKeep, fltPc>>
cchVars == <<cchClock, cchStore, cchCalls, cchLastSet, cchLastGet, cchBudget>>
infVars == <<infArgs, infOut, infPc>>
stmVars == <<stmQuery, stmUpstream, stmCandidates, stmNext, stmResults, stmRequests,
             stmCache, stmReturned, stmPc>>
vars == <<aggVars, sortVars, fltVars, cchVars, infVars, stmVars>>

----------------------------------------------------------------------------
(* Optional values *)

None == <<>>
Some(x) == <<x>>
IsDef(o) == Len(o) = 1
Val(o) == o[1]

Min(S) == CHOOSE x \in S : \A y \in S : x <= y

----------------------------------------------------------------------------
(* core/types.ts *)

WEARS == <<"Factory New", "Minimal Wear", "Field-Tested", "Well-Worn", "Battle-Scarred">>

SortStrategies == {"price", "discount", "market", "name"}

\* A MarketResult.  url stands for the fields that take no part in filtering
\* or sorting (url, priceFormatted, availability, sourceMeta, ...).
MkResult(market, name, price, median30d, wear, stattrak, souvenir, url) ==
    [market |-> market, name |-> name, price |-> price, median30d |-> median30d,
     wear |-> wear, stattrak |-> stattrak, souvenir |-> souvenir, url |-> url]

\* A SearchQuery with only its text given: every optional field undefined
\* (floatMin, floatMax, patternIn and country are read by no code modelled here).
BaseQuery(text) ==
    [text |-> text, wear |-> None, stattrak |-> None, souvenir |-> None,
     priceMin |-> None, priceMax |-> None, providers |-> None, sortBy |-> None,
     limitPerMarket |-> None, currency |-> None]

----------------------------------------------------------------------------
(* String.prototype.localeCompare on the strings of the model: the sign of  *)
(* the comparison, by the collation rank of each string.                   *)

CollationRank(s) ==
    CASE s = "A" -> 1
      [] s = "AK-47 | Redline" -> 2
      [] s = "AWP | Asiimov" -> 3
      [] s = "B" -> 4
      [] s = "BUFF163" -> 5
      [] s = "DMarket" -> 6
      [] s = "M4A4 | Howl" -> 7
      [] s = "Skinport" -> 8
      [] s = "Steam" -> 9
      [] s = "Steam Community Market" -> 10
      [] s = "Waxpeer" -> 11

Sign(n) == IF n < 0 THEN -1 ELSE IF n > 0 THEN 1 ELSE 0

localeCompare(a, b) == Sign(CollationRank(a) - CollationRank(b))

----------------------------------------------------------------------------
(* core/aggregator.ts: computeDiscount, sortResults, matchesQuery *)

\* computeDiscount: undefined, or the discount ((median30d - price) / median30d) * 100
\* kept as the exact fraction <<numerator, denominator>> with denominator > 0.
computeDiscount(r) ==
    IF ~IsDef(r.price) \/ ~IsDef(r.median30d) \/ r.median30d = Some(0)
    THEN None
    ELSE LET m == Val(r.median30d)
             p == Val(r.price)
         IN  IF m > 0 THEN Some(<<(m - p) * 100, m>>) ELSE Some(<<(p - m) * 100, -m>>)

\* Sign of (discountB - discountA), with `?? Number.NEGATIVE_INFINITY` for an
\* undefined discount; 0 when `discountA !== discountB` is false.
DiscountDiff(a, b) ==
    LET da == computeDiscount(a)
        db == computeDiscount(b)
    IN  CASE ~IsDef(da) /\ ~IsDef(db) -> 0
          [] ~IsDef(da) /\ IsDef(db) -> 1
          [] IsDef(da) /\ ~IsDef(db) -> -1
          [] OTHER -> Sign(Val(db)[1] * Val(da)[2] - Val(da)[1] * Val(db)[2])

\* Sign of (priceA - priceB), with `?? Number.POSITIVE_INFINITY` for a missing price.
PriceDiff(a, b) ==
    CASE ~IsDef(a.price) /\ ~IsDef(b.price) -> 0
      [] ~IsDef(a.price) /\ IsDef(b.price) -> 1
      [] IsDef(a.price) /\ ~IsDef(b.price) -> -1
      [] OTHER -> Sign(Val(a.price) - Val(b.price))

\* The tail of the comparator, shared by every strategy (lines 55-67).
TieBreakChain(a, b) ==
    IF PriceDiff(a, b) # 0 THEN PriceDiff(a, b)
    ELSE IF DiscountDiff(a, b) # 0 THEN DiscountDiff(a, b)
    ELSE localeCompare(a.name, b.name)

\* A comparator without the discount tie-break: price, then name.
sortResultsNoDiscount(a, b, strategy) ==
    IF PriceDiff(a, b) # 0 THEN PriceDiff(a, b) ELSE localeCompare(a.name, b.name)

\* A comparator that stops after the price, as a comparator without the
\* discount and name tie-breaks would.
sortResultsPriceOnly(a, b, strategy) == PriceDiff(a, b)

\* sortResults(a, b, strategy): the sign of the comparator's result.
\* strategy is optional; undefined takes the default 'price'.
sortResults(a, b, strategy) ==
    LET st == IF IsDef(strategy) THEN Val(strategy) ELSE "price"
    IN  IF st = "discount" /\ DiscountDiff(a, b) # 0 THEN DiscountDiff(a, b)
        ELSE IF st = "market" /\ localeCompare(a.market, b.market) # 0
             THEN localeCompare(a.market, b.market)
        ELSE IF st = "name" /\ localeCompare(a.name, b.name) # 0
             THEN localeCompare(a.name, b.name)
        ELSE TieBreakChain(a, b)

\* Array.prototype.sort with the comparator: a stable sort (ECMAScript 2019),
\* computed by insertion from the left.
RECURSIVE InsertSorted(_, _, _)
InsertSorted(x, sorted, strategy) ==
    IF sorted = <<>> THEN <<x>>
    ELSE LET last == sorted[Len(sorted)]
         IN  IF sortResults(last, x, strategy) <= 0
             THEN Append(sorted, x)
             ELSE Append(InsertSorted(x, SubSeq(sorted, 1, Len(sorted) - 1), strategy), last)

RECURSIVE SortFrom(_, _, _)
SortFrom(list, acc, strategy) ==
    IF list = <<>> THEN acc
    ELSE SortFrom(Tail(list), InsertSorted(Head(list), acc, strategy), strategy)

ArraySort(list, strategy) == SortFrom(list, <<>>, strategy)

\* A filter that lets a result without a price pass the price bounds.
matchesQueryIgnoresMissingPrice(result, query) ==
    /\ ~(query.stattrak = Some(TRUE) /\ result.stattrak = Some(FALSE))
    /\ ~(query.stattrak = Some(FALSE) /\ result.stattrak = Some(TRUE))
    /\ ~(query.souvenir = Some(TRUE) /\ result.souvenir = Some(FALSE))
    /\ ~(query.souvenir = Some(FALSE) /\ result.souvenir = Some(TRUE))
    /\ ~(IsDef(query.wear) /\ IsDef(result.wear) /\ result.wear # query.wear)
    /\ (IsDef(query.priceMin) /\ IsDef(result.price)) => Val(result.price) >= Val(query.priceMin)
    /\ (IsDef(query.priceMax) /\ IsDef(result.price)) => Val(result.price) <= Val(query.priceMax)

\* A filter that treats an undefined flag or wear of the result as a mismatch.
matchesQueryStrict(result, query) ==
    /\ IsDef(query.stattrak) => result.stattrak = query.stattrak
    /\ IsDef(query.souvenir) => result.souvenir = query.souvenir
    /\ IsDef(query.wear) => result.wear = query.wear
    /\ IsDef(query.priceMin) => (IsDef(result.price) /\ Val(result.price) >= Val(query.priceMin))
    /\ IsDef(query.priceMax) => (IsDef(result.price) /\ Val(result.price) <= Val(query.priceMax))

\* matchesQuery(result, query), the early returns in order.
matchesQuery(result, query) ==
    IF query.stattrak = Some(TRUE) /\ result.stattrak = Some(FALSE) THEN FALSE
    ELSE IF query.stattrak = Some(FALSE) /\ result.stattrak = Some(TRUE) THEN FALSE
    ELSE IF query.souvenir = Some(TRUE) /\ result.souvenir = Some(FALSE) THEN FALSE
    ELSE IF query.souvenir = Some(FALSE) /\ result.souvenir = Some(TRUE) THEN FALSE
    ELSE IF IsDef(query.wear) /\ IsDef(result.wear) /\ result.wear # query.wear THEN FALSE
    ELSE IF IsDef(query.priceMin)
            /\ (~IsDef(result.price) \/ Val(result.price) < Val(query.priceMin)) THEN FALSE
    ELSE IF IsDef(query.priceMax)
            /\ (~IsDef(result.price) \/ Val(result.price) > Val(query.priceMax)) THEN FALSE
    ELSE TRUE

\* results.filter((result) => matchesQuery(result, query))
FilterResults(results, query) == SelectSeq(results, LAMBDA r : matchesQuery(r, query))

----------------------------------------------------------------------------
(* Harness for the comparator and the sort: a list of results is sorted;  *)
(* its output is sorted again, and a permutation of the list is sorted.   *)

MaxSortLen == 3

SortUniverse ==
    { MkResult("Skinport", "AK-47 | Redline", Some(10), Some(20), None, Some(FALSE), Some(FALSE), "u1"),
      MkResult("Steam Community Market", "AK-47 | Redline", Some(10), Some(20), None, Some(FALSE), Some(FALSE), "u2"),
      MkResult("DMarket", "AWP | Asiimov", Some(10), None, None, Some(FALSE), Some(FALSE), "u3"),
      MkResult("DMarket", "AWP | Asiimov", Some(10), None, None, Some(FALSE), Some(FALSE), "u4"),
      MkResult("Waxpeer", "M4A4 | Howl", None, Some(30), None, Some(FALSE), Some(FALSE), "u5"),
      MkResult("BUFF163", "AK-47 | Redline", Some(5), Some(20), None, Some(TRUE), Some(FALSE), "u6"),
      MkResult("Skinport", "M4A4 | Howl", Some(10), Some(40), None, Some(FALSE), Some(FALSE), "u7"),
      MkResult("Waxpeer", "AWP | Asiimov", Some(10), Some(0), None, Some(FALSE), Some(FALSE), "u8") }

SeqsUpTo(S, n) == UNION { [1..k -> S] : k \in 0..n }

\* The rearrangements of a list.
Rearrangements(list) ==
    { [i \in 1..Len(list) |-> list[f[i]]] :
        f \in { g \in [1..Len(list) -> 1..Len(list)] :
                  \A i, j \in 1..Len(list) : g[i] = g[j] => i = j } }

Reverse(list) == [i \in 1..Len(list) |-> list[Len(list) + 1 - i]]

InitSortHarness ==
    /\ sortIn \in SeqsUpTo(SortUniverse, MaxSortLen)
    /\ sortBy \in {None} \cup { Some(st) : st \in SortStrategies }
    /\ sortOut = [first |-> <<>>, again |-> <<>>, rearranged |-> <<>>, ofRearranged |-> <<>>]
    /\ sortPc = "start"

IdleSortHarness ==
    /\ sortIn = <<>>
    /\ sortBy = None
    /\ sortOut = [first |-> <<>>, again |-> <<>>, rearranged |-> <<>>, ofRearranged |-> <<>>]
    /\ sortPc = "idle"

\* combinedResults.sort((a, b) => sortResults(a, b, query.sortBy))
SortList ==
    /\ sortPc = "start"
    /\ sortOut' = [sortOut EXCEPT !.first = ArraySort(sortIn, sortBy)]
    /\ sortPc' = "sorted"
    /\ UNCHANGED <<sortIn, sortBy>>

\* The same sort applied to its own output and to a rearrangement of the input.
SortAgain ==
    /\ sortPc = "sorted"
    /\ \E r \in Rearrangements(sortIn) :
          sortOut' = [sortOut EXCEPT !.again = ArraySort(sortOut.first, sortBy),
                                     !.rearranged = r,
                                     !.ofRearranged = ArraySort(r, sortBy)]
    /\ sortPc' = "done"
    /\ UNCHANGED <<sortIn, sortBy>>

----------------------------------------------------------------------------
(* Harness for matchesQuery: one result is tested against one query.      *)

FlagOptions == {None, Some(TRUE), Some(FALSE)}
WearOptions == {None, Some(WEARS[1]), Some(WEARS[3])}
HarnessPriceMins == {None, Some(0), Some(10)}
HarnessPriceMaxs == {None, Some(10), Some(20)}
HarnessPrices == {None, Some(0), Some(5), Some(10), Some(15), Some(25)}

InitFilterHarness ==
    /\ fltQuery \in { [BaseQuery("ak redline") EXCEPT !.wear = w, !.stattrak = st,
                            !.souvenir = sv, !.priceMin = lo, !.priceMax = hi] :
                        w \in WearOptions, st \in FlagOptions, sv \in FlagOptions,
                        lo \in HarnessPriceMins, hi \in HarnessPriceMaxs }
    /\ fltResult \in { MkResult("Skinport", "AK-47 | Redline", p, None, w, st, sv, "u1") :
                        p \in HarnessPrices, w \in WearOptions,
                        st \in FlagOptions, sv \in FlagOptions }
    /\ fltKeep = FALSE
    /\ fltPc = "start"

IdleFilterHarness ==
    /\ fltQuery = BaseQuery("ak redline")
    /\ fltResult = MkResult("Skinport", "AK-47 | Redline", None, None, None, None, None, "u1")
    /\ fltKeep = FALSE
    /\ fltPc = "idle"

ApplyFilter ==
    /\ fltPc = "start"
    /\ fltKeep' = matchesQuery(fltResult, fltQuery)
    /\ fltPc' = "done"
    /\ UNCHANGED <<fltQuery, fltResult>>

----------------------------------------------------------------------------
(* Configuration: index.ts, core/aggregator.ts, core/cache.ts, providers  *)

DEFAULT_TIMEOUT_MS == 9000
GlobalMinTime == 200
GlobalMaxConcurrent == 3
ProviderMinTime == 300
ProviderMaxConcurrent == 1
CACHE_TTL_SECONDS == 120
AxiosTimeoutMs == 7000
DefaultLimitPerMarket == 5

\* new Aggregator(providers, globalLimiter): timeoutMs takes its default.
timeoutMs == DEFAULT_TIMEOUT_MS

\* The providers index.ts registers, in order.
RegisteredProviders == <<"Skinport", "Steam", "DMarket", "BUFF163", "Waxpeer">>

\* Providers of another caller of the Aggregator: any implementation of the
\* Provider interface (name, search).
StubProviders == <<"A", "B">>

Range(f) == { f[i] : i \in DOMAIN f }

ProviderNames == Range(RegisteredProviders) \cup Range(StubProviders)

\* String.prototype.toLowerCase on the names of the model.
toLowerCase(s) ==
    CASE s \in {"Skinport", "skinport", "SKINPORT"} -> "skinport"
      [] s \in {"Steam", "steam", "STEAM"} -> "steam"
      [] s \in {"DMarket", "dmarket"} -> "dmarket"
      [] s \in {"BUFF163", "buff163"} -> "buff163"
      [] s \in {"Waxpeer", "waxpeer"} -> "waxpeer"
      [] s \in {"A", "a"} -> "a"
      [] s \in {"B", "b"} -> "b"
      [] s \in {"nonexistent", "Nonexistent"} -> "nonexistent"

\* MarketResult.market as each provider writes it.
MarketOf(p) == IF p = "Steam" THEN "Steam Community Market" ELSE p

----------------------------------------------------------------------------
(* Error values: what a promise can reject with.                          *)

Error(message) == [type |-> "Error", message |-> message]
ThrownString(text) == [type |-> "string", message |-> text]
ThrownUndefined == [type |-> "undefined", message |-> ""]

\* Reading `err.message`: the message of an Error, undefined on a string.
\* (Reading it on undefined or null throws a TypeError: see CatchHandler.)
ErrMessage(err) == IF err.type = "Error" THEN Some(err.message) ELSE None

TimeoutMarker == "Zeitueberschreitung"

----------------------------------------------------------------------------
(* core/cache.ts: MemoryCache.  A store is a set of entries, one per key. *)

CacheEntryOf(store, key) == { e \in store : e.key = key }

\* A get that treats an entry as expired from the instant of its expiry on.
CacheGetExpiredAtDeadline(store, key, now) ==
    LET hit == CacheEntryOf(store, key)
    IN  IF hit = {} THEN None
        ELSE LET e == CHOOSE e \in hit : TRUE
             IN  IF now >= e.expiresAt THEN None ELSE Some(e.value)

\* get(key): the value, or undefined when absent or expired.
CacheGet(store, key, now) ==
    LET hit == CacheEntryOf(store, key)
    IN  IF hit = {} THEN None
        ELSE LET e == CHOOSE e \in hit : TRUE
             IN  IF now > e.expiresAt THEN None ELSE Some(e.value)

\* The store after get(key): an expired entry is deleted.
CacheAfterGet(store, key, now) ==
    { e \in store : ~(e.key = key /\ now > e.expiresAt) }

\* A TTL that is always the cache's default.
EffectiveTtlAlwaysDefault(ttlSeconds, defaultTtlSeconds) == defaultTtlSeconds

\* ttlSeconds ?? this.defaultTtlSeconds
EffectiveTtl(ttlSeconds, defaultTtlSeconds) ==
    IF IsDef(ttlSeconds) THEN Val(ttlSeconds) ELSE defaultTtlSeconds

\* set(key, value, ttlSeconds), ttlSeconds being the effective TTL
CacheSet(store, key, value, ttlSeconds, now) ==
    { e \in store : e.key # key }
        \cup { [key |-> key, value |-> value, expiresAt |-> now + ttlSeconds * 1000] }

----------------------------------------------------------------------------
(* The providers' search.  An upstream exchange is what the marketplace's  *)
(* HTTP API does with one request: its status, the listings it carries     *)
(* (already mapped to MarketResult and matched against the query words)    *)
(* and the time it takes.                                                  *)

LimitOf(query) ==
    IF IsDef(query.limitPerMarket) THEN Val(query.limitPerMarket) ELSE DefaultLimitPerMarket

Slice(list, n) == SubSeq(list, 1, IF n < Len(list) THEN (IF n < 0 THEN 0 ELSE n) ELSE Len(list))

\* mapped.sort((a, b) => (a.price ?? Infinity) - (b.price ?? Infinity)): stable.
RECURSIVE InsertByPrice(_, _)
InsertByPrice(x, sorted) ==
    IF sorted = <<>> THEN <<x>>
    ELSE LET last == sorted[Len(sorted)]
         IN  IF PriceDiff(last, x) <= 0
             THEN Append(sorted, x)
             ELSE Append(InsertByPrice(x, SubSeq(sorted, 1, Len(sorted) - 1)), last)

RECURSIVE SortByPriceFrom(_, _)
SortByPriceFrom(list, acc) ==
    IF list = <<>> THEN acc
    ELSE SortByPriceFrom(Tail(list), InsertByPrice(Head(list), acc))

SortByPrice(list) == SortByPriceFrom(list, <<>>)

\* The listings a marketplace holds for the query text.  The registered
\* providers always set stattrak and souvenir (determineFlag); price may be
\* undefined.
Catalog(p) ==
    << MkResult(MarketOf(p), "M4A4 | Howl", Some(25), Some(20), None, Some(TRUE), Some(FALSE), "u1"),
       MkResult(MarketOf(p), "AK-47 | Redline", Some(10), Some(20), Some(WEARS[3]), Some(FALSE), Some(FALSE), "u2"),
       MkResult(MarketOf(p), "AWP | Asiimov", None, None, None, Some(TRUE), Some(FALSE), "u3"),
       MkResult(MarketOf(p), "AWP | Asiimov", Some(15), Some(20), Some(WEARS[3]), Some(TRUE), Some(FALSE), "u4"),
       MkResult(MarketOf(p), "AK-47 | Redline", Some(12), None, None, Some(TRUE), Some(TRUE), "u5") >>

\* The price candidates toPriceCandidates collects from the upstream item
\* behind a DMarket listing, in the order of the item's price record: every
\* priced item quotes USD, and the item behind "u2" quotes EUR as well.
PriceCandidate(amount, currency) == [amount |-> amount, currency |-> currency]

toPriceCandidates(r) ==
    IF ~IsDef(r.price) THEN <<>>
    ELSE IF r.url = "u2"
         THEN <<PriceCandidate(Val(r.price), "USD"), PriceCandidate(Val(r.price) - 1, "EUR")>>
         ELSE <<PriceCandidate(Val(r.price), "USD")>>

\* resolvePrice(item, desiredCurrency): the first candidate in the desired
\* currency, else the first candidate, else undefined.
resolvePrice(r, desiredCurrency) ==
    LET candidates == toPriceCandidates(r)
        preferred == { i \in 1..Len(candidates) : candidates[i].currency = desiredCurrency }
    IN  IF candidates = <<>> THEN None
        ELSE IF preferred # {}
             THEN Some(candidates[CHOOSE i \in preferred : \A h \in preferred : i <= h].amount)
             ELSE Some(candidates[1].amount)

\* mapItemToResult(item, query.currency ?? 'USD') of the DMarket provider.
mapItemToResult(r, desiredCurrency) == [r EXCEPT !.price = resolvePrice(r, desiredCurrency)]

\* The listings of an exchange as provider p maps them for the query: only
\* DMarket reads the query's currency.
MappedFor(p, query, x) ==
    IF p = "DMarket"
    THEN [x EXCEPT !.items =
            [i \in 1..Len(x.items) |->
                mapItemToResult(x.items[i],
                                IF IsDef(query.currency) THEN Val(query.currency) ELSE "USD")]]
    ELSE x

FastMs == 100
SlowMs == 6000
SteamLoopMs == 14000

Exchange(status, items, message, latency) ==
    [status |-> status, items |-> items, message |-> message, latency |-> latency]

\* What the upstream can do with a request of provider p.
UpstreamExchanges(p) ==
    { Exchange("ok", Catalog(p), "", FastMs),
      Exchange("ok", Catalog(p), "", SlowMs),
      Exchange("network", <<>>, "timeout of 7000ms exceeded", AxiosTimeoutMs),
      Exchange("status", <<>>, "Request failed with status code 429", FastMs),
      Exchange("malformed", <<>>, "items.filter is not a function", FastMs) }
    \cup (IF p = "Steam"
          THEN { Exchange("network", <<>>, "timeout of 7000ms exceeded", SteamLoopMs) }
          ELSE {})

\* What a call of provider.search settles with, and when.
Outcome(kind, results, error, latency, upstream, store) ==
    [kind |-> kind, results |-> results, error |-> error, latency |-> latency,
     upstream |-> upstream, store |-> store]

\* The cache key each provider builds.
CacheKey(p, query) ==
    IF p = "Skinport"
    THEN <<"skinport", query.text,
           IF IsDef(query.currency) THEN Val(query.currency) ELSE "EUR",
           query.wear, query.stattrak, query.souvenir>>
    ELSE <<toLowerCase(p), query.text, LimitOf(query)>>

\* A Skinport search whose fetcher's value is not kept.
SkinportFetchUncached(query, x) ==
    IF x.status = "ok"
    THEN Outcome("resolve", Slice(SortByPrice(x.items), LimitOf(query)), Error(""),
                 x.latency, x.status, FALSE)
    ELSE Outcome("reject", <<>>, Error(x.message), x.latency, x.status, FALSE)

\* SkinportProvider.search on a cache miss: the fetcher rethrows a failure.
SkinportFetch(query, x) ==
    IF x.status = "ok"
    THEN Outcome("resolve", Slice(SortByPrice(x.items), LimitOf(query)), Error(""),
                 x.latency, x.status, TRUE)
    ELSE Outcome("reject", <<>>, Error(x.message), x.latency, x.status, FALSE)

\* A search of these providers that lets the failure propagate.
CatchingFetchRethrows(query, x) ==
    IF x.status = "ok"
    THEN Outcome("resolve", Slice(SortByPrice(x.items), LimitOf(query)), Error(""),
                 x.latency, x.status, TRUE)
    ELSE Outcome("reject", <<>>, Error(x.message), x.latency, x.status, FALSE)

\* DMarketProvider / Buff163Provider / WaxpeerProvider.search on a cache miss:
\* the fetcher catches every failure and returns [], which withTtl stores.
CatchingFetch(query, x) ==
    IF x.status = "ok"
    THEN Outcome("resolve", Slice(SortByPrice(x.items), LimitOf(query)), Error(""),
                 x.latency, x.status, TRUE)
    ELSE Outcome("resolve", <<>>, Error(""), x.latency, x.status, TRUE)

\* SteamProvider.search: the loop over the candidates, taken as one exchange;
\* a failing candidate is skipped (`continue`), so a failure leaves [].
SteamSearch(query, x) ==
    IF x.status = "ok"
    THEN Outcome("resolve", Slice(x.items, LimitOf(query)), Error(""), x.latency, x.status, FALSE)
    ELSE Outcome("resolve", <<>>, Error(""), x.latency, x.status, FALSE)

\* The listings a stub provider returns, and the values it may reject with.
StubResults(p) ==
    << MkResult(p, "AK-47 | Redline", Some(10), Some(20), None, None, None, "u1"),
       MkResult(p, "M4A4 | Howl", None, None, Some(WEARS[1]), Some(FALSE), None, "u2") >>

LateMs == 9500

\* A is an implementation that may answer in time or late, reject with any
\* value or never settle; B always answers in time.
StubErrors(p) ==
    IF p = "A"
    THEN { Error("Network Error"), Error("timeout"), ThrownString("boom"), ThrownUndefined }
    ELSE {}

StubOutcomes(p) ==
    { Outcome("resolve", StubResults(p), Error(""), FastMs, "stub", FALSE) }
    \cup (IF p = "A"
          THEN { Outcome("resolve", StubResults(p), Error(""), LateMs, "stub", FALSE),
                 Outcome("never", <<>>, Error(""), 0, "stub", FALSE) }
          ELSE {})
    \cup { Outcome("reject", <<>>, e, FastMs, "stub", FALSE) : e \in StubErrors(p) }

\* provider.search(query), invoked at time now with the provider's cache store.
SearchOutcomes(p, query, store, now) ==
    IF p \in Range(StubProviders) THEN StubOutcomes(p)
    ELSE IF p = "Steam" THEN { SteamSearch(query, x) : x \in UpstreamExchanges(p) }
    ELSE IF IsDef(CacheGet(store, CacheKey(p, query), now))
         THEN { Outcome("resolve", Val(CacheGet(store, CacheKey(p, query), now)),
                        Error(""), 0, "cached", FALSE) }
    ELSE IF p = "Skinport" THEN { SkinportFetch(query, x) : x \in UpstreamExchanges(p) }
    ELSE { CatchingFetch(query, MappedFor(p, query, x)) : x \in UpstreamExchanges(p) }

----------------------------------------------------------------------------
(* core/aggregator.ts: the Aggregator                                     *)

MaxSearches == 2
MaxRequests == 3
MaxClock == 30000
IdleStepMs == 5000

\* searchAll calls are numbered in the order in which they are made.
SearchIds == 1..MaxRequests
Jobs == SearchIds \X ProviderNames

NoTask ==
    [phase |-> "none", race |-> "none", start |-> 0, deadline |-> 0, due |-> -1,
     outcome |-> None, exec |-> None, threw |-> FALSE, invokedAt |-> None]

NoSearch ==
    [status |-> "idle", query |-> BaseQuery(""), active |-> <<>>, start |-> 0,
     end |-> 0, results |-> <<>>, executions |-> <<>>, settleOrder |-> <<>>]

\* A resolution that compares the names as written.
resolveProvidersCaseSensitive(requested) ==
    IF ~IsDef(requested) \/ Len(Val(requested)) = 0 THEN providers
    ELSE LET selected == SelectSeq(providers, LAMBDA p : p \in Range(Val(requested)))
         IN  IF Len(selected) = 0 THEN providers ELSE selected

\* resolveProviders(requested)
resolveProviders(requested) ==
    IF ~IsDef(requested) \/ Len(Val(requested)) = 0 THEN providers
    ELSE LET normalized == { toLowerCase(Val(requested)[i]) : i \in 1..Len(Val(requested)) }
             selected == SelectSeq(providers, LAMBDA p : toLowerCase(p) \in normalized)
         IN  IF Len(selected) = 0 THEN providers ELSE selected

\* The ProviderExecution of the try branch (lines 163-170).
SuccessExecution(p, results, query, start, now) ==
    [provider |-> p, results |-> FilterResults(results, query),
     durationMs |-> now - start, timedOut |-> FALSE, error |-> None]

\* The catch block (lines 171-188) run on the value the race rejected with.
\* `err.message` on undefined throws, and the task's promise rejects.
CatchHandler(t, p, err, now) ==
    IF err.type = "undefined" THEN [t EXCEPT !.threw = TRUE]
    ELSE LET timedOut == ErrMessage(err) = Some("timeout")
             errorMessage == IF timedOut THEN Some(TimeoutMarker) ELSE ErrMessage(err)
         IN  [t EXCEPT !.exec = Some([provider |-> p, results |-> <<>>,
                                      durationMs |-> now - t.start,
                                      timedOut |-> timedOut, error |-> errorMessage])]

\* A merge that keeps one listing per item name.
RECURSIVE FlatMapResultsDedupByName(_)
FlatMapResultsDedupByName(executions) ==
    IF executions = <<>> THEN <<>>
    ELSE LET rest == FlatMapResultsDedupByName(SubSeq(executions, 1, Len(executions) - 1))
             seen == { rest[i].name : i \in 1..Len(rest) }
         IN  rest \o SelectSeq(executions[Len(executions)].results, LAMBDA r : r.name \notin seen)

\* A merge that prepends each execution's results to what it has so far.
RECURSIVE FlatMapResultsReversed(_)
FlatMapResultsReversed(executions) ==
    IF executions = <<>> THEN <<>>
    ELSE FlatMapResultsReversed(Tail(executions)) \o Head(executions).results

\* executions.flatMap((execution) => execution.results)
RECURSIVE FlatMapResults(_)
FlatMapResults(executions) ==
    IF executions = <<>> THEN <<>>
    ELSE Head(executions).results \o FlatMapResults(Tail(executions))

\* The executions in the order in which the tasks settled.
CollectExecutionsInSettleOrder(s) ==
    [i \in 1..Len(search[s].settleOrder) |-> Val(task[<<s, search[s].settleOrder[i]>>].exec)]

\* Promise.all(tasks): the executions in the order of the tasks.
CollectExecutions(s) ==
    [i \in 1..Len(search[s].active) |-> Val(task[<<s, search[s].active[i]>>].exec)]

\* searchAll(query) up to its first await: the providers are resolved and, for
\* each in order, the limiter is obtained, the job is submitted to the global
\* limiter and the timeout is armed.
StartSearchAll(s, query) ==
    /\ inbox # <<>>
    /\ query = Head(inbox)
    /\ search[s].status = "idle"
    /\ \A r \in SearchIds : r < s => search[r].status # "idle"
    /\ LET active == resolveProviders(query.providers)
       IN  /\ search' = [search EXCEPT ![s] =
                  [NoSearch EXCEPT !.status = "running", !.query = query,
                                   !.active = active, !.start = clock]]
           /\ task' = [j \in Jobs |->
                  IF j[1] = s /\ j[2] \in Range(active)
                  THEN [NoTask EXCEPT !.phase = "global", !.race = "pending",
                                      !.start = clock, !.deadline = clock + timeoutMs]
                  ELSE task[j]]
           /\ globalQueue' = globalQueue \o [i \in 1..Len(active) |-> <<s, active[i]>>]
           /\ providerLimiters' = providerLimiters \cup Range(active)
    /\ inbox' = Tail(inbox)
    /\ UNCHANGED <<clock, providers, globalRunning, globalNext, provQueue, provRunning,
                   provNext, cache>>

\* A global limiter that paces launches but does not bound concurrency.
CanGlobalAdmitUnbounded ==
    /\ globalQueue # <<>>
    /\ clock >= globalNext

\* Bottleneck admits the head of the global queue: a slot is free and minTime
\* has passed since the last launch.  The job's function submits the call to
\* the provider's limiter.
CanGlobalAdmit ==
    /\ globalQueue # <<>>
    /\ Cardinality(globalRunning) < GlobalMaxConcurrent
    /\ clock >= globalNext

GlobalAdmit ==
    /\ CanGlobalAdmit
    /\ LET j == Head(globalQueue)
       IN  /\ globalQueue' = Tail(globalQueue)
           /\ globalRunning' = globalRunning \cup {j}
           /\ globalNext' = clock + GlobalMinTime
           /\ provQueue' = [provQueue EXCEPT ![j[2]] = Append(@, j)]
           /\ task' = [task EXCEPT ![j].phase = "provider"]
    /\ UNCHANGED <<clock, providers, inbox, search, providerLimiters, provRunning,
                   provNext, cache>>

\* A provider limiter that paces launches but does not bound concurrency.
CanProviderAdmitUnbounded(p) ==
    /\ provQueue[p] # <<>>
    /\ clock >= provNext[p]

\* The provider's limiter admits the head of its queue and provider.search runs.
CanProviderAdmit(p) ==
    /\ provQueue[p] # <<>>
    /\ Cardinality(provRunning[p]) < ProviderMaxConcurrent
    /\ clock >= provNext[p]

ProviderAdmit(p) ==
    /\ CanProviderAdmit(p)
    /\ LET j == Head(provQueue[p])
           query == search[j[1]].query
       IN  /\ \E o \in SearchOutcomes(p, query, cache[p], clock) :
                 task' = [task EXCEPT ![j] =
                     [@ EXCEPT !.phase = "executing", !.outcome = Some(o),
                               !.due = IF o.kind = "never" THEN -1 ELSE clock + o.latency,
                               !.invokedAt = Some(clock)]]
           /\ cache' = [cache EXCEPT ![p] =
                 IF p \in Range(StubProviders) \/ p = "Steam" THEN @
                 ELSE CacheAfterGet(@, CacheKey(p, query), clock)]
           /\ provQueue' = [provQueue EXCEPT ![p] = Tail(@)]
           /\ provRunning' = [provRunning EXCEPT ![p] = @ \cup {j}]
           /\ provNext' = [provNext EXCEPT ![p] = clock + ProviderMinTime]
    /\ UNCHANGED <<clock, providers, inbox, search, globalQueue, globalRunning,
                   globalNext, providerLimiters>>

\* provider.search settles.  Both limiters release the job; a computed value
\* is stored by withTtl; if the race is still open the call wins it and the
\* task builds its ProviderExecution.
CanSettle(j) ==
    /\ task[j].phase = "executing"
    /\ task[j].due >= 0
    /\ clock >= task[j].due

SearchSettles(j) ==
    /\ CanSettle(j)
    /\ LET t == task[j]
           p == j[2]
           o == Val(t.outcome)
           query == search[j[1]].query
           released == [t EXCEPT !.phase = "settled"]
       IN  /\ globalRunning' = globalRunning \ {j}
           /\ provRunning' = [provRunning EXCEPT ![p] = @ \ {j}]
           /\ cache' = [cache EXCEPT ![p] =
                 IF o.store
                 THEN CacheSet(@, CacheKey(p, query), o.results, CACHE_TTL_SECONDS, clock)
                 ELSE @]
           /\ IF t.race = "pending"
              THEN /\ task' = [task EXCEPT ![j] =
                         IF o.kind = "resolve"
                         THEN [released EXCEPT !.race = "call",
                                 !.exec = Some(SuccessExecution(p, o.results, query, t.start, clock))]
                         ELSE CatchHandler([released EXCEPT !.race = "call"], p, o.error, clock)]
                   /\ search' = [search EXCEPT ![j[1]].settleOrder = Append(@, p)]
              ELSE /\ task' = [task EXCEPT ![j] = released]
                   /\ UNCHANGED search
    /\ UNCHANGED <<clock, providers, inbox, globalQueue, globalNext, providerLimiters,
                   provQueue, provNext>>

\* A timeout that covers only the provider call, not the wait in the limiters.
CanTimerFireWhileExecuting(j) ==
    /\ task[j].race = "pending"
    /\ task[j].phase = "executing"
    /\ clock >= task[j].deadline

\* withTimeout's timer fires before the scheduled call has settled: the race
\* rejects with Error('timeout').  The scheduled job stays where it is.
CanTimerFire(j) ==
    /\ task[j].race = "pending"
    /\ clock >= task[j].deadline

TimerFires(j) ==
    /\ CanTimerFire(j)
    /\ task' = [task EXCEPT ![j] =
          CatchHandler([@ EXCEPT !.race = "timer"], j[2], Error("timeout"), clock)]
    /\ search' = [search EXCEPT ![j[1]].settleOrder = Append(@, j[2])]
    /\ UNCHANGED <<clock, providers, inbox, globalQueue, globalRunning, globalNext,
                   providerLimiters, provQueue, provRunning, provNext, cache>>

\* Promise.all(tasks) settles: rejected as soon as a task is, fulfilled when
\* every task is; then the results are merged and sorted and searchAll returns.
TaskRejected(s) == \E i \in 1..Len(search[s].active) : task[<<s, search[s].active[i]>>].threw

TasksFulfilled(s) ==
    \A i \in 1..Len(search[s].active) : IsDef(task[<<s, search[s].active[i]>>].exec)

CanSearchAllSettle(s) ==
    /\ search[s].status = "running"
    /\ TaskRejected(s) \/ TasksFulfilled(s)

SearchAllSettles(s) ==
    /\ CanSearchAllSettle(s)
    /\ search' = [search EXCEPT ![s] =
          IF TaskRejected(s)
          THEN [@ EXCEPT !.status = "rejected", !.end = clock]
          ELSE [@ EXCEPT !.status = "resolved", !.end = clock,
                         !.executions = CollectExecutions(s),
                         !.results = ArraySort(FlatMapResults(CollectExecutions(s)),
                                               search[s].query.sortBy)]]
    /\ UNCHANGED <<clock, providers, inbox, task, globalQueue, globalRunning, globalNext,
                   providerLimiters, provQueue, provRunning, provNext, cache>>

\* Time passes, up to the next timer or completion; nothing that is due waits.
Urgent ==
    \/ CanGlobalAdmit
    \/ \E p \in ProviderNames : CanProviderAdmit(p)
    \/ \E j \in Jobs : CanSettle(j) \/ CanTimerFire(j)
    \/ \E s \in SearchIds : CanSearchAllSettle(s)

NextEvents ==
    { t \in
        { task[j].deadline : j \in { k \in Jobs : task[k].race = "pending" } }
        \cup { task[j].due : j \in { k \in Jobs : task[k].phase = "executing" /\ task[k].due >= 0 } }
        \cup (IF globalQueue # <<>> /\ Cardinality(globalRunning) < GlobalMaxConcurrent
              THEN {globalNext} ELSE {})
        \cup { provNext[p] : p \in { q \in ProviderNames :
                    provQueue[q] # <<>> /\ Cardinality(provRunning[q]) < ProviderMaxConcurrent } }
      : t > clock }

\* Something is still to happen: a searchAll has not returned, or the
\* environment has an invocation left after its first.
Unfinished ==
    \/ \E s \in SearchIds : search[s].status = "running"
    \/ inbox # <<>> /\ search[1].status # "idle"

Advance ==
    /\ ~Urgent
    /\ NextEvents # {} \/ Unfinished
    /\ clock' = IF NextEvents # {} THEN Min(NextEvents) ELSE clock + IdleStepMs
    /\ clock' <= MaxClock
    /\ UNCHANGED <<providers, inbox, search, task, globalQueue, globalRunning, globalNext,
                   providerLimiters, provQueue, provRunning, provNext, cache>>

----------------------------------------------------------------------------
(* core/cache.ts exercised on its own: one MemoryCache, direct set and get  *)
(* operations, withTtl calls whose fetchers settle later, and a clock.      *)

HarnessDefaultTtlSeconds == 2
MaxCalls == 2
MaxCacheOps == 3
MaxTicks == 3

CacheKeys == {"k1", "k2"}
SetValues == {"v1"}
TtlArguments == {None, Some(1)}
TickSteps == {100, 1000}
CallIds == 1..MaxCalls

\* The value the fetcher of call c resolves with.
ComputeValues == <<"c1", "c2", "c3", "c4">>
ComputeValue(c) == ComputeValues[c]

\* What the cache's user does: direct operations only, withTtl calls only, or
\* one direct operation and one withTtl call.
Workloads ==
    { [ops |-> MaxCacheOps, calls |-> 0, ticks |-> MaxTicks],
      [ops |-> 0, calls |-> MaxCalls, ticks |-> MaxTicks],
      [ops |-> 1, calls |-> 1, ticks |-> MaxTicks] }

NoCall ==
    [pc |-> "idle", key |-> "", ttl |-> None, seen |-> None, inFlight |-> {},
     computes |-> 0, returned |-> None]

InitCacheHarness ==
    /\ cchClock = 0
    /\ cchStore = {}
    /\ cchCalls = [c \in CallIds |-> NoCall]
    /\ cchLastSet = [k \in CacheKeys |-> None]
    /\ cchLastGet = None
    /\ cchBudget \in Workloads

IdleCacheHarness ==
    /\ cchClock = 0
    /\ cchStore = {}
    /\ cchCalls = [c \in CallIds |-> NoCall]
    /\ cchLastSet = [k \in CacheKeys |-> None]
    /\ cchLastGet = None
    /\ cchBudget = [ops |-> 0, calls |-> 0, ticks |-> 0]

\* The arguments of a set, remembered as given.
SetRecord(value, ttl, by) == Some([value |-> value, at |-> cchClock, ttl |-> ttl, by |-> by])

\* What the last set of a key promises at this instant: its value until
\* ttl seconds (the default when none was given) after the set, then nothing.
Promised(key) ==
    IF cchLastSet[key] = None THEN None
    ELSE LET r == Val(cchLastSet[key])
             seconds == IF r.ttl = None THEN HarnessDefaultTtlSeconds ELSE Val(r.ttl)
         IN  IF cchClock <= r.at + seconds * 1000 THEN Some(r.value) ELSE None

\* cache.set(key, value, ttl)
CacheSetOp(key, value, ttl) ==
    /\ cchBudget.ops > 0
    /\ cchStore' = CacheSet(cchStore, key, value,
                            EffectiveTtl(ttl, HarnessDefaultTtlSeconds), cchClock)
    /\ cchLastSet' = [cchLastSet EXCEPT ![key] = SetRecord(value, ttl, 0)]
    /\ cchBudget' = [cchBudget EXCEPT !.ops = @ - 1]
    /\ UNCHANGED <<cchClock, cchCalls, cchLastGet>>

\* cache.get(key)
CacheGetOp(key) ==
    /\ cchBudget.ops > 0
    /\ cchStore' = CacheAfterGet(cchStore, key, cchClock)
    /\ cchLastGet' = Some([key |-> key,
                           result |-> CacheGet(cchStore, key, cchClock),
                           promised |-> Promised(key),
                           present |-> CacheEntryOf(cchStore', key) # {}])
    /\ cchBudget' = [cchBudget EXCEPT !.ops = @ - 1]
    /\ UNCHANGED <<cchClock, cchCalls, cchLastSet>>

\* A withTtl that takes a call in flight for the key as a hit.
WithTtlMissUnlessInFlight(store, key, now) ==
    /\ CacheGet(store, key, now) = None
    /\ \A c \in CallIds : ~(cchCalls[c].pc = "waiting" /\ cchCalls[c].key = key)

\* withTtl: `cached !== undefined` is false.
WithTtlMiss(store, key, now) == CacheGet(store, key, now) = None

\* cache.withTtl(key, ttl, fetcher) up to its await: the cached value is
\* returned, or the fetcher is invoked.
WithTtlStart(c, key, ttl) ==
    /\ cchBudget.calls > 0
    /\ cchCalls[c].pc = "idle"
    /\ \A b \in CallIds : b < c => cchCalls[b].pc # "idle"
    /\ cchBudget' = [cchBudget EXCEPT !.calls = @ - 1]
    /\ cchStore' = CacheAfterGet(cchStore, key, cchClock)
    /\ LET started == [NoCall EXCEPT !.key = key, !.ttl = ttl,
                                     !.seen = Promised(key),
                                     !.inFlight = { b \in CallIds : /\ cchCalls[b].pc = "waiting"
                                                                    /\ cchCalls[b].key = key }]
       IN  cchCalls' = [cchCalls EXCEPT ![c] =
               IF WithTtlMiss(cchStore, key, cchClock)
               THEN [started EXCEPT !.pc = "waiting", !.computes = 1]
               ELSE [started EXCEPT !.pc = "done",
                                    !.returned = CacheGet(cchStore, key, cchClock)]]
    /\ UNCHANGED <<cchClock, cchLastSet, cchLastGet>>

\* The fetcher resolves: withTtl stores the value and returns it.
FetcherResolves(c) ==
    /\ cchCalls[c].pc = "waiting"
    /\ cchStore' = CacheSet(cchStore, cchCalls[c].key, ComputeValue(c),
                            EffectiveTtl(cchCalls[c].ttl, HarnessDefaultTtlSeconds), cchClock)
    /\ cchLastSet' = [cchLastSet EXCEPT ![cchCalls[c].key] =
                          SetRecord(ComputeValue(c), cchCalls[c].ttl, c)]
    /\ cchCalls' = [cchCalls EXCEPT ![c] =
           [@ EXCEPT !.pc = "done", !.returned = Some(ComputeValue(c))]]
    /\ UNCHANGED <<cchClock, cchLastGet, cchBudget>>

\* A withTtl that stores the fetcher's value although the fetcher rejected.
FetcherRejectsAndStores(c) ==
    /\ cchCalls[c].pc = "waiting"
    /\ cchStore' = CacheSet(cchStore, cchCalls[c].key, ComputeValue(c),
                            EffectiveTtl(cchCalls[c].ttl, HarnessDefaultTtlSeconds), cchClock)
    /\ cchLastSet' = [cchLastSet EXCEPT ![cchCalls[c].key] =
                          SetRecord(ComputeValue(c), cchCalls[c].ttl, c)]
    /\ cchCalls' = [cchCalls EXCEPT ![c] = [@ EXCEPT !.pc = "failed"]]
    /\ UNCHANGED <<cchClock, cchLastGet, cchBudget>>

\* The fetcher rejects: withTtl rejects and stores nothing.
FetcherRejects(c) ==
    /\ cchCalls[c].pc = "waiting"
    /\ cchCalls' = [cchCalls EXCEPT ![c] = [@ EXCEPT !.pc = "failed"]]
    /\ UNCHANGED <<cchClock, cchStore, cchLastSet, cchLastGet, cchBudget>>

\* Time passes.
CacheTick(d) ==
    /\ cchBudget.ticks > 0
    /\ cchClock' = cchClock + d
    /\ cchBudget' = [cchBudget EXCEPT !.ticks = @ - 1]
    /\ UNCHANGED <<cchStore, cchCalls, cchLastSet, cchLastGet>>

----------------------------------------------------------------------------
(* Strings as sequences of characters, and the String and RegExp methods    *)
(* that util/normalize.ts applies to them.  "TM" is the one character       *)
(* U+2122 (trade mark sign).                                                *)

LowerLetters == <<"a", "b", "c", "d", "e", "f", "g", "h", "i", "j", "k", "l", "m", "n", "o", "p", "q", "r", "s", "t", "u", "v", "w", "x", "y", "z">>
UpperLetters == <<"A", "B", "C", "D", "E", "F", "G", "H", "I", "J", "K", "L", "M", "N", "O", "P", "Q", "R", "S", "T", "U", "V", "W", "X", "Y", "Z">>
DigitChars == {"0", "1", "2", "3", "4", "5", "6", "7", "8", "9"}

Max(S) == CHOOSE x \in S : \A y \in S : x >= y

IsLetter(ch) == ch \in Range(LowerLetters) \cup Range(UpperLetters)
\* \s
IsWhitespace(ch) == ch = " "
\* \w
IsWordChar(ch) == IsLetter(ch) \/ ch \in DigitChars \/ ch = "_"

LetterIndex(ch, alphabet) == CHOOSE i \in 1..Len(alphabet) : alphabet[i] = ch

charToUpperCase(ch) ==
    IF ch \in Range(LowerLetters) THEN UpperLetters[LetterIndex(ch, LowerLetters)] ELSE ch

charToLowerCase(ch) ==
    IF ch \in Range(UpperLetters) THEN LowerLetters[LetterIndex(ch, UpperLetters)] ELSE ch

\* String.prototype.toUpperCase / toLowerCase
toUpperCase(str) == [i \in 1..Len(str) |-> charToUpperCase(str[i])]
stringToLowerCase(str) == [i \in 1..Len(str) |-> charToLowerCase(str[i])]

\* String.prototype.trim
trim(str) ==
    LET kept == { i \in 1..Len(str) : ~IsWhitespace(str[i]) }
    IN  IF kept = {} THEN <<>> ELSE SubSeq(str, Min(kept), Max(kept))

\* The first index from i on that holds no whitespace (Len + 1 if none).
SkipWhitespace(str, i) ==
    Min({ j \in i..(Len(str) + 1) : j = Len(str) + 1 \/ ~IsWhitespace(str[j]) })

\* replace(/\s+/g, ' ')
RECURSIVE CollapseWhitespaceFrom(_, _)
CollapseWhitespaceFrom(str, i) ==
    IF i > Len(str) THEN <<>>
    ELSE IF IsWhitespace(str[i])
         THEN <<" ">> \o CollapseWhitespaceFrom(str, SkipWhitespace(str, i))
         ELSE <<str[i]>> \o CollapseWhitespaceFrom(str, i + 1)

CollapseWhitespace(str) == CollapseWhitespaceFrom(str, 1)

\* replace(/\(([^)]+)\)/g, ''): an opening parenthesis, at least one
\* character that is no closing parenthesis, and the closing parenthesis.
RECURSIVE RemoveParenthesizedFrom(_, _)
RemoveParenthesizedFrom(str, i) ==
    IF i > Len(str) THEN <<>>
    ELSE LET closing == { j \in (i + 1)..Len(str) : str[j] = ")" }
         IN  IF str[i] = "(" /\ closing # {} /\ Min(closing) >= i + 2
             THEN RemoveParenthesizedFrom(str, Min(closing) + 1)
             ELSE <<str[i]>> \o RemoveParenthesizedFrom(str, i + 1)

RemoveParenthesized(str) == RemoveParenthesizedFrom(str, 1)

\* The characters of each wear name, in the order of WEARS.
WearChars ==
    << <<"F", "a", "c", "t", "o", "r", "y", " ", "N", "e", "w">>,
       <<"M", "i", "n", "i", "m", "a", "l", " ", "W", "e", "a", "r">>,
       <<"F", "i", "e", "l", "d", "-", "T", "e", "s", "t", "e", "d">>,
       <<"W", "e", "l", "l", "-", "W", "o", "r", "n">>,
       <<"B", "a", "t", "t", "l", "e", "-", "S", "c", "a", "r", "r", "e", "d">> >>

CharsOfWear(wear) == WearChars[CHOOSE i \in 1..Len(WEARS) : WEARS[i] = wear]

\* The wear names that `\b(?:Factory New|...|Battle-Scarred)\b` with flags gi
\* matches at index i.
WearMatchesAt(str, i) ==
    { w \in 1..Len(WearChars) :
        LET last == i + Len(WearChars[w]) - 1
        IN  /\ last <= Len(str)
            /\ i = 1 \/ ~IsWordChar(str[i - 1])
            /\ stringToLowerCase(SubSeq(str, i, last)) = stringToLowerCase(WearChars[w])
            /\ last = Len(str) \/ ~IsWordChar(str[last + 1]) }

\* replace(wearPattern, '')
RECURSIVE RemoveWearNamesFrom(_, _)
RemoveWearNamesFrom(str, i) ==
    IF i > Len(str) THEN <<>>
    ELSE IF WearMatchesAt(str, i) # {}
         THEN RemoveWearNamesFrom(str, i + Len(WearChars[Min(WearMatchesAt(str, i))]))
         ELSE <<str[i]>> \o RemoveWearNamesFrom(str, i + 1)

RemoveWearNames(str) == RemoveWearNamesFrom(str, 1)

\* replace(/\s*\|\s*/g, ' | ')
RECURSIVE NormalizePipesFrom(_, _)
NormalizePipesFrom(str, i) ==
    IF i > Len(str) THEN <<>>
    ELSE LET j == SkipWhitespace(str, i)
         IN  IF j <= Len(str) /\ str[j] = "|"
             THEN <<" ", "|", " ">> \o NormalizePipesFrom(str, SkipWhitespace(str, j + 1))
             ELSE <<str[i]>> \o NormalizePipesFrom(str, i + 1)

NormalizePipes(str) == NormalizePipesFrom(str, 1)

\* split(' ').filter(Boolean)
RECURSIVE SplitWords(_)
SplitWords(str) ==
    IF str = <<>> THEN <<>>
    ELSE LET spaces == { i \in 1..Len(str) : str[i] = " " }
         IN  IF spaces = {} THEN <<str>>
             ELSE (IF Min(spaces) = 1 THEN <<>> ELSE <<SubSeq(str, 1, Min(spaces) - 1)>>)
                      \o SplitWords(SubSeq(str, Min(spaces) + 1, Len(str)))

\* join(' ')
RECURSIVE JoinWords(_)
JoinWords(words) ==
    IF words = <<>> THEN <<>>
    ELSE IF Len(words) = 1 THEN words[1]
    ELSE words[1] \o <<" ">> \o JoinWords(Tail(words))

\* new Set(...) / Set.prototype.add, then Array.from: insertion order, once each.
SetAdd(list, x) == IF x \in Range(list) THEN list ELSE Append(list, x)

\* Array.from(new Set(list)): the first occurrence of each element, in order.
SetFrom(list) ==
    LET firsts == { k \in 1..Len(list) : \A m \in 1..(k - 1) : list[m] # list[k] }
    IN  [i \in 1..Cardinality(firsts) |->
            list[CHOOSE k \in firsts : Cardinality({ m \in firsts : m < k }) = i - 1]]

StartsWith(str, prefix) ==
    Len(str) >= Len(prefix) /\ SubSeq(str, 1, Len(prefix)) = prefix

EndsWith(str, suffix) ==
    Len(str) >= Len(suffix) /\ SubSeq(str, Len(str) - Len(suffix) + 1, Len(str)) = suffix

----------------------------------------------------------------------------
(* util/normalize.ts *)

\* A cleanup that leaves parenthesized text in place.
removeWearFromQueryKeepsParenthesized(query) ==
    trim(CollapseWhitespace(RemoveWearNames(query)))

\* removeWearFromQuery
removeWearFromQuery(query) ==
    trim(CollapseWhitespace(RemoveWearNames(RemoveParenthesized(query))))

\* titleizeWord
titleizeWord(word) ==
    IF word = <<>> THEN word
    ELSE IF \/ Len(word) <= 3 /\ \A i \in 1..Len(word) : IsLetter(word[i])
            \/ \E i \in 1..Len(word) : word[i] \in DigitChars \/ word[i] = "-"
         THEN toUpperCase(word)
         ELSE <<charToUpperCase(stringToLowerCase(word)[1])>> \o Tail(stringToLowerCase(word))

\* buildBaseCandidates
buildBaseCandidates(query) ==
    LET cleaned == NormalizePipes(removeWearFromQuery(query))
        words == SplitWords(cleaned)
        titleizedWords == [i \in 1..Len(words) |-> titleizeWord(words[i])]
        joined == JoinWords(titleizedWords)
    IN  IF cleaned = <<>> \/ words = <<>> THEN <<>>
        ELSE IF "|" \in Range(joined) THEN <<NormalizePipes(joined)>>
        ELSE IF Len(words) > 1
             THEN SetAdd(<<joined>>,
                         NormalizePipes(titleizedWords[1] \o <<" ", "|", " ">>
                                            \o JoinWords(Tail(titleizedWords))))
             ELSE <<joined>>

SouvenirPrefix == <<"S", "o", "u", "v", "e", "n", "i", "r", " ">>
StatTrakPrefix == <<"S", "t", "a", "t", "T", "r", "a", "k", "TM", " ">>

\* wearOptions (line 65)
wearOptions(wear) ==
    IF IsDef(wear) THEN <<wear>> ELSE <<None>> \o [i \in 1..Len(WEARS) |-> Some(WEARS[i])]

\* souvenirOptions (lines 67-68)
souvenirOptions(souvenir) ==
    IF souvenir = Some(TRUE) THEN <<SouvenirPrefix>>
    ELSE IF souvenir = Some(FALSE) THEN << <<>> >>
    ELSE << <<>>, SouvenirPrefix >>

\* Options that expand the StatTrak axis whatever the query pins.
stattrakOptionsExpanded(stattrak) == << <<>>, StatTrakPrefix >>

\* stattrakOptions (lines 69-70)
stattrakOptions(stattrak) ==
    IF stattrak = Some(TRUE) THEN <<StatTrakPrefix>>
    ELSE IF stattrak = Some(FALSE) THEN << <<>> >>
    ELSE << <<>>, StatTrakPrefix >>

\* inferCandidates(query, wear, stattrak, souvenir)
inferCandidates(query, wear, stattrak, souvenir) ==
    LET baseCandidates == buildBaseCandidates(query)
        nw == Len(wearOptions(wear))
        nt == Len(stattrakOptions(stattrak))
        ns == Len(souvenirOptions(souvenir))
        \* the k-th pass of the innermost loop body, k counted from 0
        candidate(k) ==
            LET base == baseCandidates[(k \div (nw * nt * ns)) + 1]
                souvenirPrefix == souvenirOptions(souvenir)[((k \div (nw * nt)) % ns) + 1]
                stattrakPrefix == stattrakOptions(stattrak)[((k \div nw) % nt) + 1]
                wearOption == wearOptions(wear)[(k % nw) + 1]
                suffix == IF IsDef(wearOption)
                          THEN <<" ", "(">> \o CharsOfWear(Val(wearOption)) \o <<")">>
                          ELSE <<>>
            IN  NormalizePipes(trim(souvenirPrefix \o stattrakPrefix \o base \o suffix))
    IN  IF baseCandidates = <<>> THEN <<>>
        ELSE SetFrom([k \in 1..(Len(baseCandidates) * ns * nt * nw) |-> candidate(k - 1)])

----------------------------------------------------------------------------
(* inferCandidates exercised on its own.                                   *)

\* The query texts tried:
\*   "awp printstream"
\*   "ak redline"
\*   "AWP | Asiimov"
\*   "awp|asiimov"
\*   "m4a1-s printstream (Field-Tested)"
\*   "ak redline factory new"
\*   ""
\*   "   "
\*   "(foo)"
\*   "Minimal Wear"
\*   "karambit"
\*   "(foo) Factory New  battle-scarred"
\*   "awp |"
\*   "souvenir ak"
QueryTexts ==
    { <<"a", "w", "p", " ", "p", "r", "i", "n", "t", "s", "t", "r", "e", "a", "m">>,
      <<"a", "k", " ", "r", "e", "d", "l", "i", "n", "e">>,
      <<"A", "W", "P", " ", "|", " ", "A", "s", "i", "i", "m", "o", "v">>,
      <<"a", "w", "p", "|", "a", "s", "i", "i", "m", "o", "v">>,
      <<"m", "4", "a", "1", "-", "s", " ", "p", "r", "i", "n", "t", "s", "t", "r", "e", "a", "m", " ", "(", "F", "i", "e", "l", "d", "-", "T", "e", "s", "t", "e", "d", ")">>,
      <<"a", "k", " ", "r", "e", "d", "l", "i", "n", "e", " ", "f", "a", "c", "t", "o", "r", "y", " ", "n", "e", "w">>,
      <<>>,
      <<" ", " ", " ">>,
      <<"(", "f", "o", "o", ")">>,
      <<"M", "i", "n", "i", "m", "a", "l", " ", "W", "e", "a", "r">>,
      <<"k", "a", "r", "a", "m", "b", "i", "t">>,
      <<"(", "f", "o", "o", ")", " ", "F", "a", "c", "t", "o", "r", "y", " ", "N", "e", "w", " ", " ", "b", "a", "t", "t", "l", "e", "-", "s", "c", "a", "r", "r", "e", "d">>,
      <<"a", "w", "p", " ", "|">>,
      <<"s", "o", "u", "v", "e", "n", "i", "r", " ", "a", "k">> }

InitInferHarness ==
    /\ infArgs \in [text : QueryTexts, wear : {None} \cup { Some(WEARS[i]) : i \in 1..Len(WEARS) },
                    stattrak : FlagOptions, souvenir : FlagOptions]
    /\ infOut = <<>>
    /\ infPc = "start"

IdleInferHarness ==
    /\ infArgs = [text |-> <<>>, wear |-> None, stattrak |-> None, souvenir |-> None]
    /\ infOut = <<>>
    /\ infPc = "idle"

InferCandidates ==
    /\ infPc = "start"
    /\ infOut' = inferCandidates(infArgs.text, infArgs.wear, infArgs.stattrak, infArgs.souvenir)
    /\ infPc' = "done"
    /\ UNCHANGED infArgs

----------------------------------------------------------------------------
(* providers/dmarket.ts, Steam section: SteamProvider.search, candidate by *)
(* candidate.                                                              *)
(* A Steam result keeps the fields read here: market and name.             *)

\* buildCacheKey(candidate, currency)
SteamCacheKey(candidate, currency) == <<"steam", candidate, currency>>

SteamCurrency(query) == IF IsDef(query.currency) THEN Val(query.currency) ELSE "EUR"

\* What the price overview endpoint does with every request of one search:
\* it lists every name, lists none (success = false), lists only names that
\* carry a wear suffix, or fails (network error, non-2xx status).
SteamUpstreams == {"listed", "unlisted", "wornOnly", "failing"}

SteamResult(candidate) == [market |-> MarketOf("Steam"), name |-> candidate]

\* The fetcher of fetchCandidate: a MarketResult, null, or a thrown error.
SteamFetch(candidate, upstream) ==
    CASE upstream = "listed" -> [kind |-> "resolve", value |-> Some(SteamResult(candidate))]
      [] upstream = "unlisted" -> [kind |-> "resolve", value |-> None]
      [] upstream = "wornOnly" ->
             [kind |-> "resolve",
              value |-> IF EndsWith(candidate, <<")">>) THEN Some(SteamResult(candidate)) ELSE None]
      [] upstream = "failing" -> [kind |-> "reject", value |-> None]

\* A limitPerMarket below the default.
SmallLimit == 2

InitSteamHarness ==
    /\ stmQuery \in { [BaseQuery(text) EXCEPT !.wear = wear, !.stattrak = stattrak,
                                              !.souvenir = souvenir, !.limitPerMarket = limit] :
                        text \in QueryTexts,
                        wear \in {None, Some(WEARS[3])},
                        stattrak \in {None, Some(TRUE)},
                        souvenir \in {None, Some(FALSE)},
                        limit \in {None, Some(SmallLimit)} }
    /\ stmUpstream \in SteamUpstreams
    /\ stmCandidates = <<>>
    /\ stmNext = 0
    /\ stmResults = <<>>
    /\ stmRequests = <<>>
    /\ stmCache = {}
    /\ stmReturned = None
    /\ stmPc = "start"

IdleSteamHarness ==
    /\ stmQuery = BaseQuery(<<>>)
    /\ stmUpstream = "listed"
    /\ stmCandidates = <<>>
    /\ stmNext = 0
    /\ stmResults = <<>>
    /\ stmRequests = <<>>
    /\ stmCache = {}
    /\ stmReturned = None
    /\ stmPc = "idle"

\* search(query) up to the loop: the candidates are inferred.
SteamSearchCalled ==
    /\ stmPc = "start"
    /\ stmCandidates' = inferCandidates(stmQuery.text, stmQuery.wear, stmQuery.stattrak,
                                        stmQuery.souvenir)
    /\ stmNext' = 1
    /\ stmPc' = "loop"
    /\ UNCHANGED <<stmQuery, stmUpstream, stmResults, stmRequests, stmCache, stmReturned>>

\* One pass of the loop: fetchCandidate through cache.withTtl; a result is
\* pushed, null is skipped, a thrown error is caught (`continue`).
SteamFetchCandidate ==
    /\ stmPc = "loop"
    /\ stmNext <= Len(stmCandidates)
    /\ Len(stmResults) < LimitOf(stmQuery)
    /\ LET candidate == stmCandidates[stmNext]
           key == SteamCacheKey(candidate, SteamCurrency(stmQuery))
           cached == CacheGet(stmCache, key, 0)
           fetched == SteamFetch(candidate, stmUpstream)
           result == IF IsDef(cached) THEN Val(cached) ELSE fetched.value
       IN  /\ stmRequests' = IF IsDef(cached) THEN stmRequests
                             ELSE Append(stmRequests, candidate)
           /\ stmCache' = IF IsDef(cached) THEN CacheAfterGet(stmCache, key, 0)
                          ELSE IF fetched.kind = "resolve"
                               THEN CacheSet(stmCache, key, fetched.value,
                                             EffectiveTtl(Some(CACHE_TTL_SECONDS),
                                                          CACHE_TTL_SECONDS), 0)
                               ELSE stmCache
           /\ stmResults' = IF IsDef(result) /\ (IsDef(cached) \/ fetched.kind = "resolve")
                            THEN Append(stmResults, Val(result))
                            ELSE stmResults
    /\ stmNext' = stmNext + 1
    /\ UNCHANGED <<stmQuery, stmUpstream, stmCandidates, stmReturned, stmPc>>

\* The loop ends (candidates exhausted or limit reached): results.slice(0, limit).
SteamSearchReturns ==
    /\ stmPc = "loop"
    /\ stmNext > Len(stmCandidates) \/ Len(stmResults) >= LimitOf(stmQuery)
    /\ stmReturned' = Some(Slice(stmResults, LimitOf(stmQuery)))
    /\ stmPc' = "done"
    /\ UNCHANGED <<stmQuery, stmUpstream, stmCandidates, stmNext, stmResults, stmRequests,
                   stmCache>>

----------------------------------------------------------------------------
(* The queries the environment submits.                                    *)

PlainQuery == BaseQuery("ak redline")

FilteringQuery ==
    [BaseQuery("ak redline") EXCEPT !.stattrak = Some(TRUE), !.souvenir = Some(FALSE),
                                    !.priceMin = Some(5), !.priceMax = Some(20),
                                    !.sortBy = Some("name")]

InitAggregator(provs, queries) ==
    /\ clock = 0
    /\ providers = provs
    /\ inbox = queries
    /\ search = [s \in SearchIds |-> NoSearch]
    /\ task = [j \in Jobs |-> NoTask]
    /\ globalQueue = <<>>
    /\ globalRunning = {}
    /\ globalNext = 0
    /\ providerLimiters = {}
    /\ provQueue = [p \in ProviderNames |-> <<>>]
    /\ provRunning = [p \in ProviderNames |-> {}]
    /\ provNext = [p \in ProviderNames |-> 0]
    /\ cache = [p \in ProviderNames |-> {}]

\* The bot of index.ts serving one request, or an Aggregator over the stub
\* providers serving up to MaxSearches requests that may overlap.
Init ==
    /\ \/ \E q \in {PlainQuery, FilteringQuery} : InitAggregator(RegisteredProviders, <<q>>)
       \/ \E n \in 1..MaxSearches : InitAggregator(StubProviders, [i \in 1..n |-> PlainQuery])
    /\ IdleSortHarness
    /\ IdleFilterHarness
    /\ IdleCacheHarness
    /\ IdleInferHarness
    /\ IdleSteamHarness

Next ==
    \/ \E s \in SearchIds : StartSearchAll(s, Head(inbox)) /\ UNCHANGED <<sortVars, fltVars, cchVars, infVars, stmVars>>
    \/ GlobalAdmit /\ UNCHANGED <<sortVars, fltVars, cchVars, infVars, stmVars>>
    \/ \E p \in ProviderNames : ProviderAdmit(p) /\ UNCHANGED <<sortVars, fltVars, cchVars, infVars, stmVars>>
    \/ \E j \in Jobs : SearchSettles(j) /\ UNCHANGED <<sortVars, fltVars, cchVars, infVars, stmVars>>
    \/ \E j \in Jobs : TimerFires(j) /\ UNCHANGED <<sortVars, fltVars, cchVars, infVars, stmVars>>
    \/ \E s \in SearchIds : SearchAllSettles(s) /\ UNCHANGED <<sortVars, fltVars, cchVars, infVars, stmVars>>
    \/ Advance /\ UNCHANGED <<sortVars, fltVars, cchVars, infVars, stmVars>>

Spec == Init /\ [][Next]_vars

\* The bot serving one request that names the providers to query.
RequestedProviders ==
    { None, Some(<<>>), Some(<<"STEAM">>), Some(<<"steam", "STEAM">>),
      Some(<<"dmarket", "Skinport">>), Some(<<"nonexistent">>),
      Some(<<"steam", "nonexistent">>) }

InitResolve ==
    /\ \E r \in RequestedProviders :
          InitAggregator(RegisteredProviders, <<[PlainQuery EXCEPT !.providers = r]>>)
    /\ IdleSortHarness
    /\ IdleFilterHarness
    /\ IdleCacheHarness
    /\ IdleInferHarness
    /\ IdleSteamHarness

SpecResolve == InitResolve /\ [][Next]_vars

\* The bot serving two requests for the same text from one provider, one with
\* the default limit and one with limitPerMarket = SmallLimit, in either order.
LimitQuery(name, limit) ==
    [PlainQuery EXCEPT !.providers = Some(<<name>>), !.limitPerMarket = limit]

InitLimit ==
    /\ \E name \in {"skinport", "steam", "dmarket"} :
          \E limits \in { <<None, Some(SmallLimit)>>, <<Some(SmallLimit), None>> } :
              InitAggregator(RegisteredProviders,
                             [i \in 1..2 |-> LimitQuery(name, limits[i])])
    /\ IdleSortHarness
    /\ IdleFilterHarness
    /\ IdleCacheHarness
    /\ IdleInferHarness
    /\ IdleSteamHarness

SpecLimit == InitLimit /\ [][Next]_vars

\* The bot serving two requests for the same text from one provider, one in
\* the provider's default currency and one in EUR, in either order.
CurrencyQuery(name, currency) ==
    [PlainQuery EXCEPT !.providers = Some(<<name>>), !.currency = currency]

InitCurrency ==
    /\ \E name \in {"steam", "dmarket"} :
          \E currencies \in { <<None, Some("EUR")>>, <<Some("EUR"), None>> } :
              InitAggregator(RegisteredProviders,
                             [i \in 1..2 |-> CurrencyQuery(name, currencies[i])])
    /\ IdleSortHarness
    /\ IdleFilterHarness
    /\ IdleCacheHarness
    /\ IdleInferHarness
    /\ IdleSteamHarness

SpecCurrency == InitCurrency /\ [][Next]_vars

\* The providers whose fetcher catches an upstream failure.
CatchingProviders == {"DMarket", "BUFF163", "Waxpeer"}

\* The bot serving MaxRequests identical requests to one provider that keeps
\* whole result lists in its cache; the requests may overlap.
RepeatedQuery(p) == [PlainQuery EXCEPT !.providers = Some(<<p>>)]

InitRepeat ==
    /\ \E p \in {"Skinport"} \cup CatchingProviders :
          InitAggregator(RegisteredProviders, [i \in 1..MaxRequests |-> RepeatedQuery(p)])
    /\ IdleSortHarness
    /\ IdleFilterHarness
    /\ IdleCacheHarness
    /\ IdleInferHarness
    /\ IdleSteamHarness

SpecRepeat == InitRepeat /\ [][Next]_vars

InitSort ==
    /\ InitAggregator(RegisteredProviders, <<>>)
    /\ InitSortHarness
    /\ IdleFilterHarness
    /\ IdleCacheHarness
    /\ IdleInferHarness
    /\ IdleSteamHarness

NextSort ==
    \/ SortList /\ UNCHANGED <<aggVars, fltVars, cchVars, infVars, stmVars>>
    \/ SortAgain /\ UNCHANGED <<aggVars, fltVars, cchVars, infVars, stmVars>>

SpecSort == InitSort /\ [][NextSort]_vars

InitFilter ==
    /\ InitAggregator(RegisteredProviders, <<>>)
    /\ IdleSortHarness
    /\ InitFilterHarness
    /\ IdleCacheHarness
    /\ IdleInferHarness
    /\ IdleSteamHarness

NextFilter == ApplyFilter /\ UNCHANGED <<aggVars, sortVars, cchVars, infVars, stmVars>>

SpecFilter == InitFilter /\ [][NextFilter]_vars

InitCache ==
    /\ InitAggregator(RegisteredProviders, <<>>)
    /\ IdleSortHarness
    /\ IdleFilterHarness
    /\ InitCacheHarness
    /\ IdleInferHarness
    /\ IdleSteamHarness

NextCache ==
    \/ \E k \in CacheKeys, v \in SetValues, ttl \in TtlArguments :
          CacheSetOp(k, v, ttl) /\ UNCHANGED <<aggVars, sortVars, fltVars, infVars, stmVars>>
    \/ \E k \in CacheKeys : CacheGetOp(k) /\ UNCHANGED <<aggVars, sortVars, fltVars, infVars, stmVars>>
    \/ \E c \in CallIds, k \in CacheKeys, ttl \in TtlArguments :
          WithTtlStart(c, k, ttl) /\ UNCHANGED <<aggVars, sortVars, fltVars, infVars, stmVars>>
    \/ \E c \in CallIds : FetcherResolves(c) /\ UNCHANGED <<aggVars, sortVars, fltVars, infVars, stmVars>>
    \/ \E c \in CallIds : FetcherRejects(c) /\ UNCHANGED <<aggVars, sortVars, fltVars, infVars, stmVars>>
    \/ \E d \in TickSteps : CacheTick(d) /\ UNCHANGED <<aggVars, sortVars, fltVars, infVars, stmVars>>

SpecCache == InitCache /\ [][NextCache]_vars

InitInfer ==
    /\ InitAggregator(RegisteredProviders, <<>>)
    /\ IdleSortHarness
    /\ IdleFilterHarness
    /\ IdleCacheHarness
    /\ InitInferHarness
    /\ IdleSteamHarness

NextInfer == InferCandidates /\ UNCHANGED <<aggVars, sortVars, fltVars, cchVars, stmVars>>

SpecInfer == InitInfer /\ [][NextInfer]_vars

----------------------------------------------------------------------------
(* SteamProvider.search exercised on its own.                              *)

InitSteam ==
    /\ InitAggregator(RegisteredProviders, <<>>)
    /\ IdleSortHarness
    /\ IdleFilterHarness
    /\ IdleCacheHarness
    /\ IdleInferHarness
    /\ InitSteamHarness

NextSteam ==
    \/ SteamSearchCalled /\ UNCHANGED <<aggVars, sortVars, fltVars, cchVars, infVars>>
    \/ SteamFetchCandidate /\ UNCHANGED <<aggVars, sortVars, fltVars, cchVars, infVars>>
    \/ SteamSearchReturns /\ UNCHANGED <<aggVars, sortVars, fltVars, cchVars, infVars>>

SpecSteam == InitSteam /\ [][NextSteam]_vars

----------------------------------------------------------------------------
(* Properties                                                              *)

Settled(s) == search[s].status \in {"resolved", "rejected"}

ActiveJobs(s) == { <<s, search[s].active[i]>> : i \in 1..Len(search[s].active) }

Count(x, list) == Cardinality({ i \in 1..Len(list) : list[i] = x })

RECURSIVE SumOver(_, _)
SumOver(f, S) ==
    IF S = {} THEN 0
    ELSE LET x == CHOOSE y \in S : TRUE IN f[x] + SumOver(f, S \ {x})

\* C1: searchAll settles no later than timeoutMs after it was called, whatever
\* the providers do: while it is running the clock has not passed start +
\* timeoutMs, and once it has settled its end is at most start + timeoutMs.
C1_BoundedLatency ==
    \A s \in SearchIds :
        /\ search[s].status = "running" => clock <= search[s].start + timeoutMs
        /\ Settled(s) => search[s].end <= search[s].start + timeoutMs

\* A searchAll that returned exactly at its deadline because a provider never settled.
C1_Witness ==
    \E s \in SearchIds :
        /\ search[s].status = "resolved"
        /\ search[s].end = search[s].start + timeoutMs
        /\ \E j \in ActiveJobs(s) :
              /\ task[j].race = "timer"
              /\ IsDef(task[j].outcome)
              /\ Val(task[j].outcome).kind = "never"

\* The pacing of a full fan-out: the global limiter launches the jobs of one
\* searchAll GlobalMinTime apart.
PacingAllowance == (Len(providers) - 1) * GlobalMinTime

NoOtherCallOfSameProvider(j) ==
    \A k \in Jobs : (k[2] = j[2] /\ k # j) => task[k].phase = "none"

\* C2: bulkhead isolation.  The outcome recorded for a provider depends on its
\* own call only: a provider with no other call of its own in the limiters is
\* recorded as timed out only if its own search was called and needed the
\* whole budget (it never settles, or takes timeoutMs less the fan-out's
\* pacing); slow or hanging calls of other providers never make it time out.
C2_BulkheadIsolation ==
    \A j \in Jobs :
        (task[j].race = "timer" /\ NoOtherCallOfSameProvider(j))
            => /\ IsDef(task[j].outcome)
               /\ \/ Val(task[j].outcome).kind = "never"
                  \/ Val(task[j].outcome).latency + PacingAllowance >= timeoutMs

FailedCall(j) ==
    \/ task[j].race = "timer"
    \/ task[j].race = "call" /\ Val(task[j].outcome).kind = "reject"

\* C3: searchAll never rejects because of a provider: however a provider's
\* search fails, searchAll resolves, and the failed provider has an execution
\* with an empty result list.
C3_NeverRejects ==
    \A s \in SearchIds :
        /\ search[s].status # "rejected"
        /\ search[s].status = "resolved" =>
              \A i \in 1..Len(search[s].active) :
                  FailedCall(<<s, search[s].active[i]>>) =>
                      /\ search[s].executions[i].provider = search[s].active[i]
                      /\ search[s].executions[i].results = <<>>

\* C4: every ProviderExecution is classified by what happened.  Timer won the
\* race: empty results, timedOut, the timeout marker.  The call rejected first:
\* empty results, not timedOut, error = the rejection's message.  The call
\* resolved first: not timedOut and no error.  timedOut implies the marker.
C4_Classification ==
    \A j \in Jobs :
        IsDef(task[j].exec) =>
            LET e == Val(task[j].exec)
            IN  /\ task[j].race = "timer" =>
                      /\ e.results = <<>>
                      /\ e.timedOut
                      /\ e.error = Some(TimeoutMarker)
                /\ (task[j].race = "call" /\ Val(task[j].outcome).kind = "reject") =>
                      /\ e.results = <<>>
                      /\ ~e.timedOut
                      /\ e.error = ErrMessage(Val(task[j].outcome).error)
                /\ (task[j].race = "call" /\ Val(task[j].outcome).kind = "resolve") =>
                      /\ ~e.timedOut
                      /\ e.error = None
                /\ e.timedOut => e.error = Some(TimeoutMarker)

\* C5: when the upstream request of a registered provider fails (network
\* error, non-success status, malformed response), the provider's search
\* rejects, and the execution searchAll records for it has error set.
C5_UpstreamFailureRaises ==
    \A j \in Jobs :
        (/\ j[2] \in Range(RegisteredProviders)
         /\ task[j].race = "call"
         /\ Val(task[j].outcome).upstream \in {"network", "status", "malformed"})
            => /\ Val(task[j].outcome).kind = "reject"
               /\ IsDef(task[j].exec)
               /\ IsDef(Val(task[j].exec).error)

\* C6: searchAll returns exactly one ProviderExecution per resolved provider,
\* in provider-iteration order, whatever order the calls settle in.
C6_OneExecutionPerProviderInOrder ==
    \A s \in SearchIds :
        search[s].status = "resolved" =>
            /\ search[s].active = resolveProviders(search[s].query.providers)
            /\ Len(search[s].executions) = Len(search[s].active)
            /\ \A i \in 1..Len(search[s].active) :
                  search[s].executions[i].provider = search[s].active[i]
            /\ \A i, k \in 1..Len(search[s].active) :
                  search[s].active[i] = search[s].active[k] => i = k

\* A searchAll that returned although its calls settled in another order than
\* the providers' and one of them failed or timed out.
C6_Witness ==
    \E s \in SearchIds :
        /\ search[s].status = "resolved"
        /\ search[s].settleOrder # search[s].active
        /\ \E j \in ActiveJobs(s) : FailedCall(j)

\* What a provider's call contributes: the results it returned that match the
\* query, when its call won the race by resolving; nothing otherwise.
Returned(j) ==
    IF task[j].race = "call" /\ Val(task[j].outcome).kind = "resolve"
    THEN Val(task[j].outcome).results ELSE <<>>

Contribution(j) ==
    SelectSeq(Returned(j), LAMBDA r : matchesQuery(r, search[j[1]].query))

\* C7: the merged list is the multiset union of the providers' filtered
\* results: every listing occurs in it as often as the providers returned it
\* and it passed the filter, its length is the sum of the filtered counts and
\* at most the sum of the returned counts; failed or timed-out providers
\* contribute nothing.
C7_MergedIsMultisetUnion ==
    \A s \in SearchIds :
        search[s].status = "resolved" =>
            LET merged == search[s].results
                jobs == ActiveJobs(s)
                listings == Range(merged) \cup UNION { Range(Returned(j)) : j \in jobs }
            IN  /\ \A r \in listings :
                      Count(r, merged) = SumOver([j \in jobs |-> Count(r, Contribution(j))], jobs)
                /\ Len(merged) = SumOver([j \in jobs |-> Len(Contribution(j))], jobs)
                /\ Len(merged) = SumOver([j \in jobs |->
                                    Len(search[s].executions[CHOOSE i \in 1..Len(search[s].active) :
                                            search[s].active[i] = j[2]].results)], jobs)
                /\ Len(merged) <= SumOver([j \in jobs |-> Len(Returned(j))], jobs)
                /\ \A j \in jobs : FailedCall(j) => Contribution(j) = <<>>

\* A merged list with the same item name from two providers, while a third
\* provider returned nothing because it failed or timed out.
C7_Witness ==
    \E s \in SearchIds :
        /\ search[s].status = "resolved"
        /\ \E i, k \in 1..Len(search[s].results) :
              /\ i # k
              /\ search[s].results[i].name = search[s].results[k].name
              /\ search[s].results[i].market # search[s].results[k].market
        /\ \E j \in ActiveJobs(s) : FailedCall(j)

----------------------------------------------------------------------------
(* Properties of matchesQuery, under SpecFilter                             *)

FlagMismatch(qf, rf) == IsDef(qf) /\ IsDef(rf) /\ qf # rf

PriceOutOfBounds(q, r) ==
    \/ IsDef(q.priceMin) /\ (~IsDef(r.price) \/ Val(r.price) < Val(q.priceMin))
    \/ IsDef(q.priceMax) /\ (~IsDef(r.price) \/ Val(r.price) > Val(q.priceMax))

\* C9: filtering is permissive.  A result is dropped only on a flag defined on
\* both sides and different, a wear defined on both sides and different, or a
\* price bound with the price missing or outside; an undefined flag or wear of
\* the result passes every flag or wear filter, and a query without filters
\* keeps every result.
C9_PermissiveFilter ==
    fltPc = "done" =>
        /\ ~fltKeep =>
              \/ FlagMismatch(fltQuery.stattrak, fltResult.stattrak)
              \/ FlagMismatch(fltQuery.souvenir, fltResult.souvenir)
              \/ FlagMismatch(fltQuery.wear, fltResult.wear)
              \/ PriceOutOfBounds(fltQuery, fltResult)
        /\ (/\ ~IsDef(fltResult.stattrak) /\ ~IsDef(fltResult.souvenir) /\ ~IsDef(fltResult.wear)
            /\ ~PriceOutOfBounds(fltQuery, fltResult)) => fltKeep
        /\ fltQuery = BaseQuery(fltQuery.text) => fltKeep

\* A result with undefined flags and wear kept under a query that sets all three.
C9_Witness ==
    /\ fltPc = "done"
    /\ fltKeep
    /\ fltQuery.stattrak = Some(TRUE)
    /\ fltQuery.souvenir = Some(FALSE)
    /\ IsDef(fltQuery.wear)
    /\ fltResult.stattrak = None
    /\ fltResult.souvenir = None
    /\ fltResult.wear = None

----------------------------------------------------------------------------
(* Properties of the sort, under SpecSort                                   *)

ClaimedStrategy == sortBy \in {None, Some("price"), Some("market"), Some("name")}

\* C10 as stated: for the price, market and name strategies, sorting the
\* sorted list changes nothing and sorting any rearrangement of the input
\* gives the same output sequence.
C10_TotalOrder ==
    (sortPc = "done" /\ ClaimedStrategy) =>
        /\ sortOut.again = sortOut.first
        /\ sortOut.ofRearranged = sortOut.first

\* Two results the comparator cannot tell apart: same name, price and
\* discount, and the same market under the market strategy.
SameSortKeys(a, b) ==
    /\ a.name = b.name
    /\ a.price = b.price
    /\ IsDef(computeDiscount(a)) = IsDef(computeDiscount(b))
    /\ DiscountDiff(a, b) = 0
    /\ sortBy = Some("market") => a.market = b.market

NoTies(list) ==
    \A i, k \in 1..Len(list) : (i # k /\ SameSortKeys(list[i], list[k])) => list[i] = list[k]

\* C10 amended: for the price, market and name strategies, sorting the sorted
\* list changes nothing, and sorting any rearrangement of the input gives a
\* sequence with the same names, prices and discounts (and markets under the
\* market strategy) position by position; it is the same sequence when no two
\* different results of the list agree on all of these.
C10_OrderUpToTies ==
    (sortPc = "done" /\ ClaimedStrategy) =>
        /\ sortOut.again = sortOut.first
        /\ Len(sortOut.ofRearranged) = Len(sortOut.first)
        /\ \A i \in 1..Len(sortOut.first) : SameSortKeys(sortOut.ofRearranged[i], sortOut.first[i])
        /\ NoTies(sortIn) => sortOut.ofRearranged = sortOut.first

\* Three different results without ties, given unsorted, and their reversal:
\* both sort to the same sequence.
C10_Witness ==
    /\ sortPc = "done"
    /\ sortBy = Some("name")
    /\ Len(sortIn) = 3
    /\ NoTies(sortIn)
    /\ \A i, k \in 1..3 : i # k => sortIn[i] # sortIn[k]
    /\ sortOut.rearranged = Reverse(sortIn)
    /\ sortOut.first # sortIn
    /\ sortOut.ofRearranged = sortOut.first

----------------------------------------------------------------------------
(* Properties of the merge, the provider resolution and the limiters        *)

RECURSIVE ConcatAll(_)
ConcatAll(lists) ==
    IF lists = <<>> THEN <<>> ELSE Head(lists) \o ConcatAll(Tail(lists))

\* What was fixed about a provider's call: which side won the race and what
\* the call settled with (not when).
FixedOutcome(j) ==
    IF task[j].race = "call"
    THEN <<"call", Val(task[j].outcome).kind, Val(task[j].outcome).results,
           Val(task[j].outcome).error>>
    ELSE <<task[j].race>>

Report(e) == <<e.provider, e.results, e.timedOut, e.error>>

\* C11: the value searchAll returns is a function of the providers' outcomes
\* taken in provider order, whatever order the calls completed in: the merged
\* list is the sort of the providers' filtered results concatenated in provider
\* order, the executions carry these results per provider, and two searchAll
\* calls with the same query and the same outcomes return the same merged list
\* and the same report (durations aside).
C11_InterleavingDeterminism ==
    /\ \A s \in SearchIds :
          search[s].status = "resolved" =>
              LET act == search[s].active
                  contrib == [i \in 1..Len(act) |-> Contribution(<<s, act[i]>>)]
              IN  /\ search[s].results = ArraySort(ConcatAll(contrib), search[s].query.sortBy)
                  /\ Len(search[s].executions) = Len(act)
                  /\ \A i \in 1..Len(act) :
                        /\ search[s].executions[i].provider = act[i]
                        /\ search[s].executions[i].results = contrib[i]
    /\ \A s, r \in SearchIds :
          (/\ search[s].status = "resolved"
           /\ search[r].status = "resolved"
           /\ search[s].query = search[r].query
           /\ \A p \in Range(search[s].active) : FixedOutcome(<<s, p>>) = FixedOutcome(<<r, p>>))
              => /\ search[s].results = search[r].results
                 /\ Len(search[s].executions) = Len(search[r].executions)
                 /\ \A i \in 1..Len(search[s].executions) :
                       Report(search[s].executions[i]) = Report(search[r].executions[i])

\* A searchAll whose calls completed in another order than the providers',
\* returning two listings that tie in the sort: the one of the provider that
\* comes first in provider order stands first although its call settled later.
C11_Witness ==
    \E s \in SearchIds :
        /\ search[s].status = "resolved"
        /\ \E a, b \in 1..Len(search[s].active) :
              /\ a < b
              /\ \E x, y \in 1..Len(search[s].settleOrder) :
                    /\ x < y
                    /\ search[s].settleOrder[x] = search[s].active[b]
                    /\ search[s].settleOrder[y] = search[s].active[a]
              /\ \E x, y \in 1..Len(search[s].results) :
                    /\ x < y
                    /\ search[s].results[x].market = MarketOf(search[s].active[a])
                    /\ search[s].results[y].market = MarketOf(search[s].active[b])
                    /\ search[s].results[x].name = search[s].results[y].name
                    /\ search[s].results[x].price = search[s].results[y].price
                    /\ search[s].results[x].url = search[s].results[y].url

Executing(p) == { j \in Jobs : j[2] = p /\ task[j].phase = "executing" }

\* C13: one limiter per provider name, created at first use and shared by all
\* searchAll calls; at most one search call of a provider executes at any
\* time; a provider's calls start in the order of their submission, each after
\* the one before it has settled and at least the limiter's minTime after its
\* start.
C13_ProviderCallsSerialized ==
    /\ providerLimiters = { p \in ProviderNames : \E s \in SearchIds : task[<<s, p>>].phase # "none" }
    /\ \A p \in ProviderNames :
          /\ Cardinality(Executing(p)) <= 1
          /\ provRunning[p] = Executing(p)
          /\ p \notin providerLimiters => (provQueue[p] = <<>> /\ provRunning[p] = {})
    /\ \A j, k \in Jobs :
          (j[2] = k[2] /\ j[1] < k[1] /\ IsDef(task[k].invokedAt))
              => /\ IsDef(task[j].invokedAt)
                 /\ task[j].phase = "settled"
                 /\ Val(task[k].invokedAt) >= Val(task[j].invokedAt) + ProviderMinTime

\* Two overlapping searchAll calls whose calls of one provider both ran, the
\* second having waited in the provider's limiter for the first to settle.
C13_Witness ==
    \E j, k \in Jobs :
        /\ j[2] = k[2]
        /\ j[1] < k[1]
        /\ task[j].phase = "settled"
        /\ task[k].phase = "settled"
        /\ IsDef(task[j].invokedAt)
        /\ IsDef(task[k].invokedAt)
        /\ task[j].due >= Val(task[j].invokedAt) + LateMs
        /\ Val(task[k].invokedAt) = task[j].due

OnlyFirstSearchStarted == \A s \in SearchIds : s > 1 => search[s].status = "idle"

\* C14: within one searchAll, the provider calls run concurrently: no call
\* waits for another provider's call to finish, so once the global limiter's
\* pacing of the fan-out has passed, every provider's search has been invoked.
C14_AllProvidersConcurrent ==
    OnlyFirstSearchStarted =>
        \A j \in ActiveJobs(1) :
            task[j].phase \in {"global", "provider"} => clock <= search[1].start + PacingAllowance

\* Nothing is due and nothing is scheduled: every timer has fired and every
\* call that will ever settle has settled.
Quiescent ==
    /\ ~Urgent
    /\ NextEvents = {}
    /\ inbox = <<>>

\* C15: a call that lost the timeout race still releases its slots: when
\* nothing is left to happen, no limiter holds a slot and no call is still
\* waiting in a limiter's queue.
C15_OrphanReleasesSlots ==
    Quiescent =>
        /\ \A j \in Jobs : task[j].phase \notin {"global", "provider"}
        /\ globalRunning = {}
        /\ \A p \in ProviderNames : provRunning[p] = {}

\* The providers a request for `requested` is to query.
NamesMatch(requested, p) ==
    \E i \in 1..Len(requested) : toLowerCase(requested[i]) = toLowerCase(p)

ExpectedProviders(requested) ==
    IF ~IsDef(requested) \/ Val(requested) = <<>> THEN providers
    ELSE IF \A i \in 1..Len(providers) : ~NamesMatch(Val(requested), providers[i]) THEN providers
    ELSE SelectSeq(providers, LAMBDA p : NamesMatch(Val(requested), p))

\* C12: provider resolution.  Without requested names every registered
\* provider is queried; otherwise exactly the registered providers whose name
\* equals a requested name ignoring case; and when no registered provider
\* matches, all of them are queried and searchAll does not fail.
C12_ProviderResolution ==
    \A s \in SearchIds :
        search[s].status # "idle" =>
            /\ search[s].active = ExpectedProviders(search[s].query.providers)
            /\ \A p \in ProviderNames :
                  task[<<s, p>>].phase # "none" <=> p \in Range(search[s].active)
            /\ search[s].status # "rejected"
            /\ search[s].status = "resolved" =>
                  /\ Len(search[s].executions) = Len(search[s].active)
                  /\ \A i \in 1..Len(search[s].active) :
                        search[s].executions[i].provider = search[s].active[i]

\* A request naming only an unknown provider, answered with results by all
\* the registered providers.
C12_Witness ==
    \E s \in SearchIds :
        /\ search[s].status = "resolved"
        /\ search[s].query.providers = Some(<<"nonexistent">>)
        /\ Len(search[s].executions) = Len(RegisteredProviders)
        /\ \E i \in 1..Len(search[s].executions) : search[s].executions[i].results # <<>>

\* C19: per-provider result cap.  After any earlier queries, a provider's
\* search returns at most query.limitPerMarket results, at most 5 when the
\* query gives no limit.
C19_PerProviderCap ==
    \A j \in Jobs :
        (IsDef(task[j].outcome) /\ Val(task[j].outcome).kind = "resolve")
            => Len(Val(task[j].outcome).results) <= LimitOf(search[j[1]].query)

----------------------------------------------------------------------------
(* Properties of MemoryCache, under SpecCache                               *)

\* C16: TTL cache.  After set(k, v, ttl) at t0 and no later set of k, get(k)
\* returns v at every time up to t0 + ttl seconds and absent at every later
\* time; a get after expiry removes the entry from the store.
C16_TtlCache ==
    /\ \A k \in CacheKeys : CacheGet(cchStore, k, cchClock) = Promised(k)
    /\ cchLastGet # None =>
          /\ Val(cchLastGet).result = Val(cchLastGet).promised
          /\ Val(cchLastGet).promised = None => ~Val(cchLastGet).present

\* set(k, v, 1) and, 1.1 s later, a get(k) that returned absent and left no
\* entry in the store.
C16_Witness ==
    \E k \in CacheKeys :
        /\ cchLastSet[k] # None
        /\ Val(cchLastSet[k]).ttl = Some(1)
        /\ Val(cchLastSet[k]).by = 0
        /\ cchClock = Val(cchLastSet[k]).at + 1100
        /\ cchLastGet = Some([key |-> k, result |-> None, promised |-> None, present |-> FALSE])
        /\ CacheEntryOf(cchStore, k) = {}

Started(c) == cchCalls[c].pc # "idle"

ReturnedOwnValue(c) ==
    /\ cchCalls[c].computes = 1
    /\ cchCalls[c].pc = "done" => cchCalls[c].returned = Some(ComputeValue(c))

\* C17: withTtl.  A call that finds an unexpired value returns it and does not
\* invoke the fetcher; any other call invokes the fetcher exactly once and,
\* when it resolves, returns its value and stores it under the given TTL (the
\* default TTL when none is given), counted from the moment of storing.
C17_GetOrCompute ==
    /\ \A c \in CallIds :
          Started(c) =>
              IF cchCalls[c].seen # None
              THEN /\ cchCalls[c].pc = "done"
                   /\ cchCalls[c].computes = 0
                   /\ cchCalls[c].returned = cchCalls[c].seen
              ELSE ReturnedOwnValue(c)
    /\ \A k \in CacheKeys :
          (cchLastSet[k] # None /\ Val(cchLastSet[k]).by \in CallIds) =>
              LET r == Val(cchLastSet[k])
                  c == r.by
                  seconds == IF cchCalls[c].ttl = None THEN HarnessDefaultTtlSeconds
                             ELSE Val(cchCalls[c].ttl)
                  entry == [key |-> k, value |-> ComputeValue(c),
                            expiresAt |-> r.at + seconds * 1000]
              IN  /\ cchCalls[c].pc = "done"
                  /\ cchCalls[c].key = k
                  /\ CacheEntryOf(cchStore, k) \subseteq {entry}
                  /\ cchClock <= entry.expiresAt => CacheEntryOf(cchStore, k) = {entry}

\* A call with a TTL of 1 s that computed and stored its value, and a later
\* call for the same key that returned that value without computing.
C17_Witness ==
    \E c, d \in CallIds :
        /\ c < d
        /\ cchCalls[c].pc = "done"
        /\ cchCalls[c].computes = 1
        /\ cchCalls[c].ttl = Some(1)
        /\ cchCalls[d].pc = "done"
        /\ cchCalls[d].key = cchCalls[c].key
        /\ cchCalls[d].computes = 0
        /\ cchCalls[d].returned = Some(ComputeValue(c))
        /\ cchClock > 0

\* C18: no in-flight deduplication.  A call started on an empty or expired
\* entry while earlier calls for the same key are still computing invokes its
\* own fetcher, as each of those calls did, and each of them returns the value
\* of its own fetcher.
C18_NoInFlightDedup ==
    \A d \in CallIds :
        (Started(d) /\ cchCalls[d].inFlight # {} /\ cchCalls[d].seen = None) =>
            /\ ReturnedOwnValue(d)
            /\ \A c \in cchCalls[d].inFlight : ReturnedOwnValue(c)

\* Two calls for one key, the second started while the first was computing,
\* both finished, each with its own value.
C18_Witness ==
    \E c, d \in CallIds :
        /\ c \in cchCalls[d].inFlight
        /\ cchCalls[c].pc = "done"
        /\ cchCalls[d].pc = "done"
        /\ cchCalls[c].returned = Some(ComputeValue(c))
        /\ cchCalls[d].returned = Some(ComputeValue(d))
        /\ cchCalls[c].returned # cchCalls[d].returned

----------------------------------------------------------------------------
(* Properties of inferCandidates, under SpecInfer                           *)

\* C20: with stattrak = true, for every query text and every setting of wear
\* and souvenir, every candidate inferCandidates returns begins with
\* "StatTrak(TM) ".
C20_StatTrakPrefix ==
    (infPc = "done" /\ infArgs.stattrak = Some(TRUE)) =>
        \A i \in 1..Len(infOut) : StartsWith(infOut[i], StatTrakPrefix)

\* "awp printstream"
AwpPrintstreamQuery ==
    <<"a", "w", "p", " ", "p", "r", "i", "n", "t", "s", "t", "r", "e", "a", "m">>

\* "AWP | PrintStream"
AwpPrintStreamName ==
    <<"A", "W", "P", " ", "|", " ", "P", "r", "i", "n", "t", "S", "t", "r", "e", "a", "m">>

NoFlagsPinned ==
    infArgs.wear = None /\ infArgs.stattrak = None /\ infArgs.souvenir = None

\* " (<wear>)"
WearSuffix(wear) == <<" ", "(">> \o CharsOfWear(wear) \o <<")">>

\* C21: for the input "awp printstream" with no flags pinned, the output
\* includes the candidate "AWP | PrintStream" and, for each of the 5 wear
\* tiers, a candidate ending in " (<Wear>)".
C21_AwpPrintstream ==
    (infPc = "done" /\ infArgs.text = AwpPrintstreamQuery /\ NoFlagsPinned) =>
        /\ \E i \in 1..Len(infOut) : infOut[i] = AwpPrintStreamName
        /\ \A w \in 1..Len(WEARS) :
               \E i \in 1..Len(infOut) : EndsWith(infOut[i], WearSuffix(WEARS[w]))

----------------------------------------------------------------------------
(* Properties of SteamProvider.search, under SpecSteam                      *)

\* The query texts that are empty, or hold only whitespace, parenthesized
\* text or wear names:
\*   "", "   ", "(foo)", "Minimal Wear", "(foo) Factory New  battle-scarred"
EmptyingTexts ==
    { <<>>,
      <<" ", " ", " ">>,
      <<"(", "f", "o", "o", ")">>,
      <<"M", "i", "n", "i", "m", "a", "l", " ", "W", "e", "a", "r">>,
      <<"(", "f", "o", "o", ")", " ", "F", "a", "c", "t", "o", "r", "y", " ", "N", "e", "w", " ", " ", "b", "a", "t", "t", "l", "e", "-", "s", "c", "a", "r", "r", "e", "d">> }

\* C22: when the query text is empty or becomes empty after cleanup,
\* inferCandidates returns the empty sequence and SteamProvider.search
\* returns an empty list, without an error and without any upstream request.
C22_EmptyTextSkipsSteam ==
    (stmPc \in {"loop", "done"} /\ stmQuery.text \in EmptyingTexts) =>
        /\ stmCandidates = <<>>
        /\ stmRequests = <<>>
        /\ stmPc = "done" => stmReturned = Some(<<>>)

C22_Witness ==
    /\ stmPc = "done"
    /\ stmQuery.text \in EmptyingTexts \ {<<>>}
    /\ stmUpstream = "listed"
    /\ stmReturned = Some(<<>>)

----------------------------------------------------------------------------
(* Properties of the price ordering, under SpecSort                         *)

HasDiscount(r) == IsDef(r.price) /\ IsDef(r.median30d) /\ Val(r.median30d) # 0

\* (median30d - price) / median30d of a is at least that of b (medians > 0).
DiscountAtLeast(a, b) ==
    (Val(a.median30d) - Val(a.price)) * Val(b.median30d)
        >= (Val(b.median30d) - Val(b.price)) * Val(a.median30d)

SameDiscount(a, b) ==
    \/ ~HasDiscount(a) /\ ~HasDiscount(b)
    \/ HasDiscount(a) /\ HasDiscount(b) /\ DiscountAtLeast(a, b) /\ DiscountAtLeast(b, a)

\* a may stand before b in a list ordered by price.
PriceOrdered(a, b) ==
    /\ IsDef(b.price) => IsDef(a.price) /\ Val(a.price) <= Val(b.price)
    /\ a.price = b.price =>
           /\ HasDiscount(b) => HasDiscount(a) /\ DiscountAtLeast(a, b)
           /\ SameDiscount(a, b) => CollationRank(a.name) <= CollationRank(b.name)

\* C23: with strategy price, or none given, every priced result precedes
\* every unpriced one, priced results ascend by price, equal prices are
\* ordered by descending discount with an undefined discount after any
\* defined one, and remaining ties are ordered by name ascending.
C23_PriceOrdering ==
    (sortPc # "start" /\ sortBy \in {None, Some("price")}) =>
        \A i, j \in 1..Len(sortOut.first) :
            i < j => PriceOrdered(sortOut.first[i], sortOut.first[j])

C23_Witness ==
    /\ sortPc # "start"
    /\ sortBy = None
    /\ Len(sortIn) = 3
    /\ ~IsDef(sortIn[1].price)
    /\ IsDef(sortIn[2].price) /\ sortIn[2].price = sortIn[3].price
    /\ sortIn[2].median30d = Some(0) /\ HasDiscount(sortIn[3])
    /\ sortOut.first = Reverse(sortIn)

----------------------------------------------------------------------------
(* Properties of the two limiters, under Spec                               *)

HoldsGlobalSlot(j) == j \in globalRunning

HoldsProviderSlot(j) == j \in provRunning[j[2]]

InProviderLimiter(j) ==
    HoldsProviderSlot(j) \/ \E i \in 1..Len(provQueue[j[2]]) : provQueue[j[2]][i] = j

\* C24: a provider's search executes only while its task holds a global
\* slot and the provider's slot, the global slot being acquired first, and
\* never more than GlobalMaxConcurrent tasks hold a global slot.
C24_TwoTierGating ==
    /\ \A j \in Jobs :
          /\ task[j].phase = "executing" => HoldsGlobalSlot(j) /\ HoldsProviderSlot(j)
          /\ InProviderLimiter(j) => HoldsGlobalSlot(j)
    /\ Cardinality(globalRunning) <= GlobalMaxConcurrent

C24_Witness ==
    /\ Cardinality(globalRunning) = GlobalMaxConcurrent
    /\ globalQueue # <<>>
    /\ clock >= globalNext
    /\ \A j \in globalRunning : task[j].phase = "executing"

\* The options of a prefix axis and of the wear axis, as sets.
AxisPrefixes(flag, prefix) ==
    IF flag = Some(TRUE) THEN {prefix}
    ELSE IF flag = Some(FALSE) THEN {<<>>}
    ELSE {<<>>, prefix}

AxisSuffixes(wear) ==
    IF IsDef(wear) THEN {WearSuffix(Val(wear))}
    ELSE {<<>>} \cup { WearSuffix(WEARS[i]) : i \in 1..Len(WEARS) }

\* souvenirPrefix + stattrakPrefix + baseName + optional " (wear)" over the
\* cross product of the axis options.
Concatenations ==
    { sp \o st \o buildBaseCandidates(infArgs.text)[b] \o sfx :
        sp \in AxisPrefixes(infArgs.souvenir, SouvenirPrefix),
        st \in AxisPrefixes(infArgs.stattrak, StatTrakPrefix),
        b \in 1..Len(buildBaseCandidates(infArgs.text)),
        sfx \in AxisSuffixes(infArgs.wear) }

DuplicateFree(list) == \A i, j \in 1..Len(list) : list[i] = list[j] => i = j

CarriesSouvenir(str) == StartsWith(str, SouvenirPrefix)

CarriesStatTrak(str) ==
    StartsWith(str, StatTrakPrefix) \/ StartsWith(str, SouvenirPrefix \o StatTrakPrefix)

PinnedWearOnly ==
    IsDef(infArgs.wear) =>
        \A i \in 1..Len(infOut) : EndsWith(infOut[i], WearSuffix(Val(infArgs.wear)))

\* C25: inferCandidates returns a duplicate-free sequence that is exactly the
\* set of strings souvenirPrefix + stattrakPrefix + baseName + optional
\* " (wear)" over the cross product of the axis options; a pinned wear yields
\* only candidates ending in that wear, a prefix pinned to false yields no
\* candidate carrying it, an unspecified axis is expanded to all its options.
C25_CrossProduct ==
    infPc = "done" =>
        /\ DuplicateFree(infOut)
        /\ Range(infOut) = Concatenations
        /\ PinnedWearOnly
        /\ infArgs.souvenir = Some(FALSE) =>
               \A i \in 1..Len(infOut) : ~CarriesSouvenir(infOut[i])
        /\ infArgs.stattrak = Some(FALSE) =>
               \A i \in 1..Len(infOut) : ~CarriesStatTrak(infOut[i])

\* C25 as amended: the candidates are the concatenations with the spacing
\* around every pipe normalized to " | ", and with a prefix pinned to false
\* a candidate carries that prefix only where the query text itself supplied
\* it in a base name.
C25_CrossProductNormalized ==
    infPc = "done" =>
        /\ DuplicateFree(infOut)
        /\ Range(infOut) = { NormalizePipes(c) : c \in Concatenations }
        /\ PinnedWearOnly
        /\ infArgs.souvenir = Some(FALSE) =>
               \A i \in 1..Len(infOut) :
                   CarriesSouvenir(infOut[i]) =>
                       \E b \in 1..Len(buildBaseCandidates(infArgs.text)) :
                           CarriesSouvenir(buildBaseCandidates(infArgs.text)[b])
        /\ infArgs.stattrak = Some(FALSE) =>
               \A i \in 1..Len(infOut) :
                   CarriesStatTrak(infOut[i]) =>
                       \E b \in 1..Len(buildBaseCandidates(infArgs.text)) :
                           CarriesStatTrak(buildBaseCandidates(infArgs.text)[b])

\* "awp |" with Field-Tested pinned and souvenir pinned to false.
C25_Witness ==
    /\ infPc = "done"
    /\ infArgs.text = <<"a", "w", "p", " ", "|">>
    /\ infArgs.wear = Some(WEARS[3])
    /\ infArgs.souvenir = Some(FALSE)
    /\ infArgs.stattrak = None
    /\ Len(infOut) = 2
    /\ Range(infOut) # Concatenations

----------------------------------------------------------------------------
(* Properties of the timeout of a queued call, under Spec                   *)

Queued(j) == task[j].phase \in {"global", "provider"}

InItsQueue(j) ==
    IF task[j].phase = "global"
    THEN \E i \in 1..Len(globalQueue) : globalQueue[i] = j
    ELSE \E i \in 1..Len(provQueue[j[2]]) : provQueue[j[2]][i] = j

\* The timer of j fired while j was waiting in a limiter.
TimedOutWhileQueued(j) ==
    /\ task[j].race = "timer"
    /\ Queued(j) \/ (IsDef(task[j].invokedAt) /\ Val(task[j].invokedAt) > task[j].deadline)

RecordedAsTimedOut(j) ==
    /\ IsDef(task[j].exec)
    /\ Val(task[j].exec).timedOut
    /\ Val(task[j].exec).results = <<>>
    /\ Val(task[j].exec).error = Some(TimeoutMarker)

ReportedAsTimedOut(j) ==
    search[j[1]].status = "resolved" =>
        \A i \in 1..Len(search[j[1]].executions) :
            search[j[1]].executions[i].provider = j[2] =>
                /\ search[j[1]].executions[i].timedOut
                /\ search[j[1]].executions[i].results = <<>>

\* The part of C26 that concerns the record and the queue.
TimedOutJobStaysQueued ==
    \A j \in Jobs :
        TimedOutWhileQueued(j) =>
            /\ RecordedAsTimedOut(j)
            /\ ReportedAsTimedOut(j)
            /\ Queued(j) => InItsQueue(j)

\* C26: the timeout budget runs from submission to the limiters: a task
\* whose timeout fires while it waits in a limiter queue is recorded as
\* timedOut, stays in the queue, has its provider.search invoked later all
\* the same, and the outcome of that call appears in no searchAll result.
C26_TimeoutWhileQueued ==
    /\ TimedOutJobStaysQueued
    /\ Quiescent => \A j \in Jobs : TimedOutWhileQueued(j) => ~Queued(j)

----------------------------------------------------------------------------
(* Properties of the providers' caches, under SpecRepeat                    *)

\* provider.search of j was invoked and went upstream, and its fetcher
\* resolved at task[j].due.
FetchCompleted(j) ==
    /\ task[j].phase = "settled"
    /\ Val(task[j].outcome).kind = "resolve"
    /\ Val(task[j].outcome).upstream = "ok"

\* k is a call of the same provider with an identical query, invoked within
\* the TTL after the fetch of j completed.
RepeatsWithinTtl(j, k) ==
    /\ k[2] = j[2]
    /\ CacheKey(k[2], search[k[1]].query) = CacheKey(j[2], search[j[1]].query)
    /\ IsDef(task[k].invokedAt)
    /\ Val(task[k].invokedAt) >= task[j].due
    /\ Val(task[k].invokedAt) <= task[j].due + CACHE_TTL_SECONDS * 1000

ServedFromCacheOf(j, k) ==
    /\ Val(task[k].outcome).upstream = "cached"
    /\ Val(task[k].outcome).kind = "resolve"
    /\ Val(task[k].outcome).results = Val(task[j].outcome).results

\* C27: a provider call that lost the timeout race is discarded only by the
\* aggregator: when it completes, its result is still stored in the
\* provider's cache, and an identical query within the TTL after that
\* completion is served from the cache without a new upstream request.
C27_OrphanResultCached ==
    \A j, k \in Jobs :
        (task[j].race = "timer" /\ FetchCompleted(j) /\ RepeatsWithinTtl(j, k))
            => ServedFromCacheOf(j, k)

C27_Witness ==
    \E j, k \in Jobs :
        /\ task[j].race = "timer" /\ FetchCompleted(j) /\ RepeatsWithinTtl(j, k)
        /\ ServedFromCacheOf(j, k)
        /\ search[j[1]].status = "resolved" /\ search[j[1]].results = <<>>
        /\ search[k[1]].status = "resolved"
        /\ search[k[1]].results # <<>>

----------------------------------------------------------------------------
(* Properties of a rejecting fetcher, under SpecCache                       *)

\* d was started for the key of c after c had ended.
StartedAfter(c, d) ==
    /\ c < d
    /\ Started(d)
    /\ cchCalls[d].key = cchCalls[c].key
    /\ c \notin cchCalls[d].inFlight

\* C28: if the fetcher rejects, withTtl rejects and stores nothing: the
\* cache holds for the key what it held before the call, and the next
\* withTtl call for the key invokes its fetcher again.
C28_RejectionStoresNothing ==
    \A c \in CallIds :
        cchCalls[c].pc = "failed" =>
            /\ cchCalls[c].returned = None
            /\ \A k \in CacheKeys :
                   cchLastSet[k] # None => Val(cchLastSet[k]).by # c
            /\ cchLastSet[cchCalls[c].key] = None =>
                   /\ CacheEntryOf(cchStore, cchCalls[c].key) = {}
                   /\ \A d \in CallIds : StartedAfter(c, d) => cchCalls[d].computes = 1

C28_Witness ==
    \E c, d \in CallIds :
        /\ cchCalls[c].pc = "failed"
        /\ StartedAfter(c, d)
        /\ cchCalls[d].computes = 1
        /\ cchCalls[d].pc = "done"
        /\ CacheGet(cchStore, cchCalls[c].key, cchClock) = Some(ComputeValue(d))

UpstreamFailed(j) ==
    /\ task[j].phase = "settled"
    /\ Val(task[j].outcome).upstream \in {"network", "status", "malformed"}

\* C29: in the DMarket, BUFF163 and Waxpeer providers an upstream failure
\* becomes an empty list inside the cached computation and is stored: every
\* identical query within the TTL after the failure returns an empty list
\* without a new upstream request.
C29_FailureCachedAsEmpty ==
    \A j, k \in Jobs :
        (j[2] \in CatchingProviders /\ UpstreamFailed(j)) =>
            /\ Val(task[j].outcome).kind = "resolve"
            /\ Val(task[j].outcome).results = <<>>
            /\ RepeatsWithinTtl(j, k) => ServedFromCacheOf(j, k)

C29_Witness ==
    \E j, k \in Jobs :
        /\ j[2] \in CatchingProviders /\ UpstreamFailed(j)
        /\ RepeatsWithinTtl(j, k) /\ ServedFromCacheOf(j, k)
        /\ search[k[1]].status = "resolved"
        /\ search[k[1]].results = <<>>
        /\ Val(task[k].exec).error = None
        /\ ~Val(task[k].exec).timedOut

----------------------------------------------------------------------------
(* Properties of the providers' caches, under SpecCurrency                  *)

\* The providers that keep whole result lists in their cache.
ListCachingProviders == {"Skinport"} \cup CatchingProviders

\* What a search of provider p for the query returns when it goes upstream
\* and the upstream answers with its listings.
UncachedResults(p, query) ==
    { o.results : o \in { u \in SearchOutcomes(p, query, {}, 0) : u.upstream = "ok" } }

ServedFromCache(k) ==
    /\ IsDef(task[k].outcome)
    /\ Val(task[k].outcome).upstream = "cached"

\* C30: cache transparency.  Against unchanged upstream data, a provider's
\* search served from the cache returns the results an uncached search of
\* the same query would return, and two queries whose uncached results
\* differ (they differ in a field the cached computation reads, such as the
\* currency DMarket resolves prices in) never share a cache entry.
C30_CacheTransparency ==
    \A j, k \in Jobs :
        /\ (FetchCompleted(j) /\ RepeatsWithinTtl(j, k) /\ ServedFromCache(k))
               => Val(task[k].outcome).results \in UncachedResults(k[2], search[k[1]].query)
        /\ (/\ j[2] = k[2] /\ j[2] \in ListCachingProviders
            /\ task[j].phase # "none" /\ task[k].phase # "none"
            /\ UncachedResults(j[2], search[j[1]].query)
                   # UncachedResults(k[2], search[k[1]].query))
               => CacheKey(j[2], search[j[1]].query) # CacheKey(k[2], search[k[1]].query)

====
